---- MODULE Spec2Model ----
(***************************************************************************)
(* State-machine model of the boss-fight core: AnimationComponent, Player, *)
(* Boss and BossGame (src/unnamed/part_000).                               *)
(*                                                                         *)
(* Units.  Time is in milliseconds, velocity in px/s, position in          *)
(* milli-pixels (px * 1000), so that  position += velocity * dt  and       *)
(* velocity.y += gravity * dt  are exact integer operations for every dt   *)
(* that is a multiple of 5 ms.                                             *)
(***************************************************************************)
EXTENDS Integers, Sequences, FiniteSets, TLC

VARIABLES player, boss, ticks, track

vars == <<player, boss, ticks, track>>

---------------------------------------------------------------------------
(* Bounds of the model (not program constants).                            *)

\* SpecFrameTimes: number of update ticks explored from construction
MaxFrameTimeTicks == 4

\* SpecBoss: number of Boss::update ticks explored from construction
MaxAiTicks == 80

\* SpecDuel: the frames during which the user only holds D, walking the
\* player up to the boss, before the attack keys are used
DuelApproachFrames == 26

\* SpecDuel: number of frames of the game loop explored
MaxDuelFrames == 32

\* SpecAnim: largest frameCount of a registered animation
MaxFrameCount == 4

\* SpecAnim: number of update calls made on the stand-alone component
MaxAdvances == 5

\* number of update ticks explored from construction
MaxTicks == 6

\* number of Boss::update ticks explored from construction
MaxBossTicks == 52

\* SpecGame: the frames during which the user only holds D, walking the
\* player up to the boss, before any other input arrives
ApproachFrames == 42

\* SpecGame: number of frames of the game loop explored
MaxFrames == 45

\* largest damage amount passed to Player::takeDamage
MaxPlayerDamage == 150

\* largest damage amount passed to Boss::takeDamage
MaxBossDamage == 1000

---------------------------------------------------------------------------
(* Inputs.                                                                 *)

\* frame times fed to update(); BossGame::run clamps dt to 0.1 s
DtSet == {100}

\* SpecFrameTimes: frame times that do not all divide the timers' durations
FrameTimes == {60, 100}

\* SpecAnim: frame durations passed to addAnimation
FrameDurations == {80, 100}

\* SpecAnim: frame times passed to AnimationComponent::update: less than a
\* frame, and several frames at once
AdvanceTimes == {40, 500}

\* amounts passed to Player::takeDamage (5: boss hit, 10: debug key)
PlayerDamageAmounts == {5, 10, MaxPlayerDamage}

\* amounts passed to Boss::takeDamage (15: player hit, 100: debug key)
BossDamageAmounts == {15, 100, MaxBossDamage}

\* SpecBoss: amounts passed to Boss::takeDamage (15: player hit, and a
\* lethal one)
StrikeAmounts == {15, MaxBossDamage}

\* horizontal component of the direction passed to Player::move
MoveDirections == {-1, 0, 1}

---------------------------------------------------------------------------
(* AnimationComponent                                                      *)

\* an Animation as addAnimation stores it, its texture found
Anim(frames, duration, loop) ==
    [texture |-> "loaded", frameCount |-> frames, frameDuration |-> duration,
     loops |-> loop]

\* a value-initialised Animation, as std::map::operator[] inserts it
DefaultAnimation ==
    [texture |-> "null", frameCount |-> 0, frameDuration |-> 100,
     loops |-> TRUE]

\* Player::initAnimations
PlayerAnimations ==
    [Idle    |-> Anim(8, 200, TRUE),
     Run     |-> Anim(8, 100, TRUE),
     Attack1 |-> Anim(6, 60, FALSE),
     Attack2 |-> Anim(5, 90, FALSE),
     Attack3 |-> Anim(16, 26, FALSE),
     Jump    |-> Anim(11, 80, FALSE),
     Dash    |-> Anim(5, 36, FALSE),
     Parry   |-> Anim(6, 80, FALSE),
     Dead    |-> Anim(7, 200, FALSE),
     Hurt    |-> Anim(2, 400, FALSE)]

\* Boss::initAnimations
BossAnimations ==
    [BossIdle     |-> Anim(8, 150, TRUE),
     BossAttack1  |-> Anim(8, 120, FALSE),
     BossAttack2  |-> Anim(8, 120, FALSE),
     BossUltimate |-> Anim(2, 500, FALSE),
     BossDead     |-> Anim(9, 180, FALSE),
     BossMove     |-> Anim(1, 600, TRUE)]

\* the members of a default-constructed AnimationComponent
NewAnimationComponent ==
    [currentState |-> "None", currentFrame |-> 0, elapsedTime |-> 0,
     isDone |-> FALSE]

\* AnimationComponent::isDone
AnimIsDone(table, a) ==
    IF a.currentState # "None" /\ a.currentState \in DOMAIN table
    THEN ~table[a.currentState].loops /\ a.isDone
    ELSE TRUE

\* an update() without the clamp to the last frame of a non-looping track
AnimUpdate_NoClamp(table, a, dt) ==
    IF a.currentState # "None" /\ a.currentState \in DOMAIN table
    THEN LET anim == table[a.currentState]
             e == a.elapsedTime + dt
         IN IF anim.texture = "null" \/ (~anim.loops /\ AnimIsDone(table, a))
            THEN a
            ELSE IF e >= anim.frameDuration
                 THEN LET frameAdvancement == e \div anim.frameDuration
                          cf == a.currentFrame + frameAdvancement
                      IN [a EXCEPT
                            !.elapsedTime = e % anim.frameDuration,
                            !.currentFrame =
                                IF cf >= anim.frameCount /\ anim.loops
                                THEN cf % anim.frameCount
                                ELSE cf,
                            !.isDone =
                                IF cf >= anim.frameCount /\ ~anim.loops
                                THEN TRUE ELSE a.isDone]
                 ELSE [a EXCEPT !.elapsedTime = e]
    ELSE a

\* an update() without the early return on a finished non-looping track
AnimUpdate_NoDoneCheck(table, a, dt) ==
    IF a.currentState # "None" /\ a.currentState \in DOMAIN table
    THEN LET anim == table[a.currentState]
             e == a.elapsedTime + dt
         IN IF anim.texture = "null" THEN a
            ELSE IF e >= anim.frameDuration
            THEN LET frameAdvancement == e \div anim.frameDuration
                     cf == a.currentFrame + frameAdvancement
                 IN [a EXCEPT
                       !.elapsedTime = e % anim.frameDuration,
                       !.currentFrame =
                           IF cf >= anim.frameCount
                           THEN IF anim.loops THEN cf % anim.frameCount
                                ELSE anim.frameCount - 1
                           ELSE cf,
                       !.isDone =
                           IF cf >= anim.frameCount /\ ~anim.loops
                           THEN TRUE ELSE a.isDone]
            ELSE [a EXCEPT !.elapsedTime = e]
    ELSE a

\* an update() that advances one frame per call, however large dt is
AnimUpdate_OneFramePerCall(table, a, dt) ==
    IF a.currentState # "None" /\ a.currentState \in DOMAIN table
    THEN LET anim == table[a.currentState]
             e == a.elapsedTime + dt
         IN IF anim.texture = "null" \/ (~anim.loops /\ AnimIsDone(table, a))
            THEN a
            ELSE IF e >= anim.frameDuration
                 THEN LET cf == a.currentFrame + 1
                      IN [a EXCEPT
                            !.elapsedTime = e - anim.frameDuration,
                            !.currentFrame =
                                IF cf >= anim.frameCount
                                THEN IF anim.loops THEN 0
                                     ELSE anim.frameCount - 1
                                ELSE cf,
                            !.isDone =
                                IF cf >= anim.frameCount /\ ~anim.loops
                                THEN TRUE ELSE a.isDone]
                 ELSE [a EXCEPT !.elapsedTime = e]
    ELSE a

\* AnimationComponent::update
AnimUpdate(table, a, dt) ==
    IF a.currentState # "None" /\ a.currentState \in DOMAIN table
    THEN LET anim == table[a.currentState]
             e == a.elapsedTime + dt
         IN IF anim.texture = "null" \/ (~anim.loops /\ AnimIsDone(table, a))
            THEN a
            ELSE IF e >= anim.frameDuration
                 THEN LET frameAdvancement == e \div anim.frameDuration
                          cf == a.currentFrame + frameAdvancement
                      IN [a EXCEPT
                            !.elapsedTime = e % anim.frameDuration,
                            !.currentFrame =
                                IF cf >= anim.frameCount
                                THEN IF anim.loops THEN cf % anim.frameCount
                                     ELSE anim.frameCount - 1
                                ELSE cf,
                            !.isDone =
                                IF cf >= anim.frameCount /\ ~anim.loops
                                THEN TRUE ELSE a.isDone]
                 ELSE [a EXCEPT !.elapsedTime = e]
    ELSE a

\* a play() that switches only to a different state and never restarts the
\* current one
AnimPlay_NeverRestarts(table, a, state) ==
    IF state # a.currentState
    THEN [currentState |-> state, currentFrame |-> 0, elapsedTime |-> 0,
          isDone |-> FALSE]
    ELSE a

\* AnimationComponent::play, for a state that addAnimation registered
AnimPlay(table, a, state) ==
    IF state # a.currentState \/ ~table[state].loops
    THEN [currentState |-> state, currentFrame |-> 0, elapsedTime |-> 0,
          isDone |-> FALSE]
    ELSE a

\* AnimationComponent::isDone of the earlier build (BossFight.cpp), which
\* has no _isDone member and tests the frame index
LegacyAnimIsDone(table, a) ==
    IF a.currentState # "None" /\ a.currentState \in DOMAIN table
    THEN /\ ~table[a.currentState].loops
         /\ a.currentFrame >= table[a.currentState].frameCount - 1
    ELSE TRUE

\* AnimationComponent::update of the earlier build: one frame per call
LegacyAnimUpdate(table, a, dt) ==
    IF a.currentState # "None" /\ a.currentState \in DOMAIN table
    THEN LET anim == table[a.currentState]
             e == a.elapsedTime + dt
             cf == a.currentFrame + 1
         IN IF ~anim.loops /\ LegacyAnimIsDone(table, a)
            THEN a
            ELSE IF e >= anim.frameDuration
                 THEN [a EXCEPT
                         !.elapsedTime = e - anim.frameDuration,
                         !.currentFrame =
                             IF cf >= anim.frameCount
                             THEN IF anim.loops THEN 0
                                  ELSE anim.frameCount - 1
                             ELSE cf]
                 ELSE [a EXCEPT !.elapsedTime = e]
    ELSE a

\* AnimationComponent::play of the earlier build
LegacyAnimPlay(table, a, state) ==
    IF state # a.currentState /\ state \in DOMAIN table
    THEN [a EXCEPT !.currentState = state, !.currentFrame = 0,
                   !.elapsedTime = 0]
    ELSE a

\* the animation table of the stand-alone component: one looping and one
\* non-looping state, as addAnimation registers them
TrackTable(loopFrames, onceFrames, duration) ==
    [Idle    |-> Anim(loopFrames, duration, TRUE),
     Attack1 |-> Anim(onceFrames, duration, FALSE)]

\* isDone, update and play of the stand-alone component, in its build
TrackIsDone(t) ==
    IF t.build = "part_000" THEN AnimIsDone(t.animations, t.component)
    ELSE LegacyAnimIsDone(t.animations, t.component)

TrackUpdate(t, dt) ==
    [t EXCEPT !.component =
        IF t.build = "part_000" THEN AnimUpdate(t.animations, t.component, dt)
        ELSE LegacyAnimUpdate(t.animations, t.component, dt)]

TrackPlay(t, state) ==
    [t EXCEPT !.component =
        IF t.build = "part_000" THEN AnimPlay(t.animations, t.component, state)
        ELSE LegacyAnimPlay(t.animations, t.component, state)]

\* the states play may be called with; Hurt is a state whose texture was
\* not found, so that addAnimation registered nothing for it
TrackStates == {"Idle", "Attack1", "Hurt"}

\* what play(state) makes of the stand-alone component.  In part_000 a state
\* that is not registered is value-initialised by animations[state]; unless
\* it is already current, play then switches to it and binds *anim.texture,
\* a null pointer: undefined behaviour, after which the program has either
\* stopped ("crashed") or runs on with the null texture ("null_texture").
\* The earlier build tests animations.count(state) and does nothing.
PlayOutcomes(t, state) ==
    IF state \in DOMAIN t.animations /\ t.animations[state].texture # "null"
    THEN {TrackPlay(t, state)}
    ELSE IF t.build = "part_000"
         THEN LET inserted ==
                      [s \in DOMAIN t.animations \cup {state} |->
                          IF s \in DOMAIN t.animations THEN t.animations[s]
                          ELSE DefaultAnimation]
              IN IF state # t.component.currentState \/ ~inserted[state].loops
                 THEN {[t EXCEPT
                          !.animations = inserted,
                          !.component = [currentState |-> state,
                                         currentFrame |-> 0,
                                         elapsedTime |-> 0,
                                         isDone |-> FALSE],
                          !.fault = f] : f \in {"crashed", "null_texture"}}
                 ELSE {[t EXCEPT !.animations = inserted]}
         ELSE {TrackPlay(t, state)}

\* a default-constructed AnimationComponent on its own, with no animation
\* registered: the stand-alone component while the actors are exercised
NoTrack ==
    [build |-> "part_000", animations |-> <<>>,
     component |-> NewAnimationComponent, fault |-> "none"]

---------------------------------------------------------------------------
(* Player                                                                  *)

\* Player member initialisers
moveSpeed == 300
jumpForce == 700
gravity == 1800
groundLevel == 485000
LEFT_BOUNDARY == 25000
dashSpeed == 800
dashDuration == 150
dashCooldown == 400
attackCooldown == 400
parryCooldown == 800
PARRY_SUCCESS_DURATION == 800
knockbackForceX == 60
knockbackForceY == -300
hurtDuration == 400
hurtFlashInterval == 80
PlayerMaxHealth == 100

attackStates == <<"Attack1", "Attack2", "Attack3">>

\* Player::Player with the default arguments, after initAnimations
NewPlayer ==
    [animations |-> AnimPlay(PlayerAnimations, NewAnimationComponent, "Idle"),
     position |-> [x |-> 200000, y |-> 500000],
     velocity |-> [x |-> 0, y |-> 0],
     facingRight |-> TRUE,
     scaleX |-> 1,
     isGrounded |-> TRUE,
     rightBoundary |-> 1280000,
     maxHealth |-> PlayerMaxHealth,
     currentHealth |-> PlayerMaxHealth,
     canDash |-> TRUE,
     dashTimer |-> 0,
     dashCooldownTimer |-> 0,
     canAttack |-> TRUE,
     attackTimer |-> 0,
     canParry |-> TRUE,
     parryTimer |-> 0,
     parrySuccessWindow |-> 0,
     isHurt |-> FALSE,
     hurtTimer |-> 0,
     hurtFlashIntervalTimer |-> 0,
     color |-> "default"]

\* Player::isAlive
PlayerIsAlive(p) == p.currentHealth > 0

\* Player::isAttacking
PlayerIsAttacking(p) ==
    p.animations.currentState \in {"Attack1", "Attack2", "Attack3"}

\* an isParryProtected() that looks at the animation only
isParryProtected_AnimationOnly(p) ==
    \/ p.animations.currentState = "Parry"
    \/ p.animations.currentState = "Dash"

\* Player::isParryProtected
isParryProtected(p) ==
    \/ p.parrySuccessWindow > 0
    \/ p.animations.currentState = "Parry"
    \/ p.animations.currentState = "Dash"

PlayerPlay(p, state) ==
    [p EXCEPT !.animations = AnimPlay(PlayerAnimations, p.animations, state)]

\* a move() without the hurt/dead guard
PlayerMove_NoHurtGuard(p, dx) ==
    LET locked == p.isGrounded /\ (PlayerIsAttacking(p)
                                   \/ p.animations.currentState = "Parry")
    IN IF p.dashTimer <= 0 /\ ~locked
       THEN [p EXCEPT !.velocity.x =
                 IF dx # 0 THEN (IF dx > 0 THEN moveSpeed ELSE -moveSpeed)
                 ELSE 0]
       ELSE IF locked THEN [p EXCEPT !.velocity.x = 0]
            ELSE p

\* Player::move
PlayerMove(p, dx) ==
    LET locked == p.isGrounded /\ (PlayerIsAttacking(p)
                                   \/ p.animations.currentState = "Parry")
    IN IF p.isHurt \/ ~PlayerIsAlive(p) THEN p
       ELSE IF p.dashTimer <= 0 /\ ~locked
            THEN [p EXCEPT !.velocity.x =
                      IF dx # 0 THEN (IF dx > 0 THEN moveSpeed ELSE -moveSpeed)
                      ELSE 0]
            ELSE IF locked THEN [p EXCEPT !.velocity.x = 0]
                 ELSE p

\* a jump() that does not ask whether the player is grounded
PlayerJump_NoGroundCheck(p) ==
    IF p.isHurt \/ ~PlayerIsAlive(p) THEN p
    ELSE IF ~PlayerIsAttacking(p) /\ p.dashTimer <= 0
            /\ p.animations.currentState # "Parry"
         THEN [p EXCEPT !.velocity.y = -jumpForce, !.isGrounded = FALSE]
         ELSE p

\* Player::jump
PlayerJump(p) ==
    IF p.isHurt \/ ~PlayerIsAlive(p) THEN p
    ELSE IF p.isGrounded /\ ~PlayerIsAttacking(p) /\ p.dashTimer <= 0
            /\ p.animations.currentState # "Parry"
         THEN [p EXCEPT !.velocity.y = -jumpForce, !.isGrounded = FALSE]
         ELSE p

\* a death() that runs again on a dead player and flips the tint the way
\* the hurt flash does, instead of resetting it
PlayerDeath_TintToggle(p) ==
    [PlayerPlay(p, "Dead") EXCEPT
        !.velocity = [x |-> 0, y |-> 0],
        !.currentHealth = 0,
        !.isGrounded = TRUE,
        !.isHurt = FALSE,
        !.color = IF p.color = "default" THEN "damage" ELSE "default"]

\* Player::death
PlayerDeath(p) ==
    IF p.animations.currentState = "Dead" THEN p
    ELSE [PlayerPlay(p, "Dead") EXCEPT
            !.velocity = [x |-> 0, y |-> 0],
            !.currentHealth = 0,
            !.isGrounded = TRUE,
            !.isHurt = FALSE,
            !.color = "default"]

\* a dash() that starts the cooldown but leaves the ready flag set
PlayerDash_KeepsReady(p) ==
    IF p.isHurt \/ ~PlayerIsAlive(p) THEN p
    ELSE IF p.canDash /\ p.dashTimer <= 0 /\ ~PlayerIsAttacking(p)
            /\ p.animations.currentState # "Parry"
         THEN [PlayerPlay(p, "Dash") EXCEPT
                 !.velocity = [x |-> IF p.facingRight THEN dashSpeed
                                     ELSE -dashSpeed,
                               y |-> 0],
                 !.dashTimer = dashDuration,
                 !.dashCooldownTimer = dashCooldown]
         ELSE p

\* a dash() that does not look at the ready flag of its cooldown
PlayerDash_IgnoresCooldown(p) ==
    IF p.isHurt \/ ~PlayerIsAlive(p) THEN p
    ELSE IF p.dashTimer <= 0 /\ ~PlayerIsAttacking(p)
            /\ p.animations.currentState # "Parry"
         THEN [PlayerPlay(p, "Dash") EXCEPT
                 !.velocity = [x |-> IF p.facingRight THEN dashSpeed
                                     ELSE -dashSpeed,
                               y |-> 0],
                 !.dashTimer = dashDuration,
                 !.canDash = FALSE,
                 !.dashCooldownTimer = dashCooldown]
         ELSE p

\* Player::dash
PlayerDash(p) ==
    IF p.isHurt \/ ~PlayerIsAlive(p) THEN p
    ELSE IF p.canDash /\ p.dashTimer <= 0 /\ ~PlayerIsAttacking(p)
            /\ p.animations.currentState # "Parry"
         THEN [PlayerPlay(p, "Dash") EXCEPT
                 !.velocity = [x |-> IF p.facingRight THEN dashSpeed
                                     ELSE -dashSpeed,
                               y |-> 0],
                 !.dashTimer = dashDuration,
                 !.canDash = FALSE,
                 !.dashCooldownTimer = dashCooldown]
         ELSE p

\* Player::parry
PlayerParry(p) ==
    IF p.isHurt \/ ~PlayerIsAlive(p) THEN p
    ELSE IF p.canParry /\ ~PlayerIsAttacking(p) /\ p.dashTimer <= 0
         THEN [PlayerPlay(p, "Parry") EXCEPT
                 !.canParry = FALSE,
                 !.parryTimer = parryCooldown,
                 !.parrySuccessWindow = PARRY_SUCCESS_DURATION,
                 !.velocity.x = IF p.isGrounded THEN 0 ELSE p.velocity.x]
         ELSE p

\* Player::attack; attackIndex is the value drawn from attackDistribution
PlayerAttack(p, attackIndex) ==
    IF p.isHurt \/ ~PlayerIsAlive(p) THEN p
    ELSE IF p.canAttack /\ ~PlayerIsAttacking(p) /\ p.dashTimer <= 0
            /\ p.animations.currentState # "Parry"
         THEN [PlayerPlay(p, attackStates[attackIndex + 1]) EXCEPT
                 !.canAttack = FALSE,
                 !.attackTimer = attackCooldown,
                 !.velocity.x = IF p.isGrounded THEN 0 ELSE p.velocity.x]
         ELSE p

Max(a, b) == IF a >= b THEN a ELSE b

\* a takeDamage() with the sign of the amount wrong
PlayerTakeDamage_SignError(p, amount) ==
    IF ~PlayerIsAlive(p) \/ p.animations.currentState = "Dead" \/ p.isHurt
    THEN p
    ELSE LET q == [p EXCEPT !.currentHealth = Max(0, p.currentHealth + amount)]
         IN IF PlayerIsAlive(q)
            THEN [PlayerPlay(q, "Hurt") EXCEPT
                    !.isHurt = TRUE,
                    !.hurtTimer = hurtDuration,
                    !.hurtFlashIntervalTimer = 0,
                    !.color = "damage",
                    !.velocity = [x |-> -knockbackForceX,
                                  y |-> knockbackForceY],
                    !.isGrounded = FALSE]
            ELSE PlayerDeath(q)

\* a takeDamage() whose lethal branch forgets to call death()
PlayerTakeDamage_NoDeath(p, amount) ==
    IF ~PlayerIsAlive(p) \/ p.animations.currentState = "Dead" \/ p.isHurt
    THEN p
    ELSE LET q == [p EXCEPT !.currentHealth = Max(0, p.currentHealth - amount)]
         IN IF PlayerIsAlive(q)
            THEN [PlayerPlay(q, "Hurt") EXCEPT
                    !.isHurt = TRUE,
                    !.hurtTimer = hurtDuration,
                    !.hurtFlashIntervalTimer = 0,
                    !.color = "damage",
                    !.velocity = [x |-> -knockbackForceX,
                                  y |-> knockbackForceY],
                    !.isGrounded = FALSE]
            ELSE q

\* a takeDamage() without the isHurt test, so that hits stack while stunned
PlayerTakeDamage_Stacking(p, amount) ==
    IF ~PlayerIsAlive(p) \/ p.animations.currentState = "Dead"
    THEN p
    ELSE LET q == [p EXCEPT !.currentHealth = Max(0, p.currentHealth - amount)]
         IN IF PlayerIsAlive(q)
            THEN [PlayerPlay(q, "Hurt") EXCEPT
                    !.isHurt = TRUE,
                    !.hurtTimer = hurtDuration,
                    !.hurtFlashIntervalTimer = 0,
                    !.color = "damage",
                    !.velocity = [x |-> -knockbackForceX,
                                  y |-> knockbackForceY],
                    !.isGrounded = FALSE]
            ELSE PlayerDeath(q)

\* Player::takeDamage
PlayerTakeDamage(p, amount) ==
    IF ~PlayerIsAlive(p) \/ p.animations.currentState = "Dead" \/ p.isHurt
    THEN p
    ELSE LET q == [p EXCEPT !.currentHealth = Max(0, p.currentHealth - amount)]
         IN IF PlayerIsAlive(q)
            THEN [PlayerPlay(q, "Hurt") EXCEPT
                    !.isHurt = TRUE,
                    !.hurtTimer = hurtDuration,
                    !.hurtFlashIntervalTimer = 0,
                    !.color = "damage",
                    !.velocity = [x |-> -knockbackForceX,
                                  y |-> knockbackForceY],
                    !.isGrounded = FALSE]
            ELSE PlayerDeath(q)

\* a handleMovement() whose landing re-arms the dash whatever the cooldown
PlayerHandleMovement_LandingRearms(p, dt) ==
    LET vy1 == IF p.dashTimer <= 0
               THEN p.velocity.y + (gravity * dt) \div 1000
               ELSE p.velocity.y
        propX == p.position.x + p.velocity.x * dt
        propY == p.position.y + vy1 * dt
        onGround == propY >= groundLevel
        landed == onGround /\ vy1 > 0
        vy2 == IF landed THEN 0 ELSE vy1
        grounded == IF landed THEN TRUE
                    ELSE IF ~onGround /\ vy1 # 0 THEN FALSE
                    ELSE p.isGrounded
        dashOk == IF landed THEN TRUE
                  ELSE p.canDash
        y2 == IF onGround THEN groundLevel ELSE propY
        hitLeft == propX < LEFT_BOUNDARY
        x1 == IF hitLeft THEN LEFT_BOUNDARY ELSE propX
        vx1 == IF hitLeft /\ p.velocity.x < 0 THEN 0 ELSE p.velocity.x
        hitRight == x1 > p.rightBoundary
        x2 == IF hitRight THEN p.rightBoundary ELSE x1
        vx2 == IF hitRight /\ vx1 > 0 THEN 0 ELSE vx1
        free == ~PlayerIsAttacking(p) /\ p.dashTimer <= 0
                /\ p.animations.currentState # "Parry" /\ ~p.isHurt
        scale == IF free
                 THEN IF vx2 > 1 /\ p.scaleX < 0 THEN 1
                      ELSE IF vx2 < -1 /\ p.scaleX > 0 THEN -1
                      ELSE p.scaleX
                 ELSE p.scaleX
        facing == IF free
                  THEN IF vx2 > 1 /\ p.scaleX < 0 THEN TRUE
                       ELSE IF vx2 < -1 /\ p.scaleX > 0 THEN FALSE
                       ELSE p.facingRight
                  ELSE p.scaleX > 0
    IN [p EXCEPT !.velocity = [x |-> vx2, y |-> vy2],
                 !.position = [x |-> x2, y |-> y2],
                 !.isGrounded = grounded,
                 !.canDash = dashOk,
                 !.scaleX = scale,
                 !.facingRight = facing]

\* Player::handleMovement
PlayerHandleMovement(p, dt) ==
    LET vy1 == IF p.dashTimer <= 0
               THEN p.velocity.y + (gravity * dt) \div 1000
               ELSE p.velocity.y
        propX == p.position.x + p.velocity.x * dt
        propY == p.position.y + vy1 * dt
        onGround == propY >= groundLevel
        landed == onGround /\ vy1 > 0
        vy2 == IF landed THEN 0 ELSE vy1
        grounded == IF landed THEN TRUE
                    ELSE IF ~onGround /\ vy1 # 0 THEN FALSE
                    ELSE p.isGrounded
        dashOk == IF landed /\ p.dashCooldownTimer <= 0 THEN TRUE
                  ELSE p.canDash
        y2 == IF onGround THEN groundLevel ELSE propY
        hitLeft == propX < LEFT_BOUNDARY
        x1 == IF hitLeft THEN LEFT_BOUNDARY ELSE propX
        vx1 == IF hitLeft /\ p.velocity.x < 0 THEN 0 ELSE p.velocity.x
        hitRight == x1 > p.rightBoundary
        x2 == IF hitRight THEN p.rightBoundary ELSE x1
        vx2 == IF hitRight /\ vx1 > 0 THEN 0 ELSE vx1
        free == ~PlayerIsAttacking(p) /\ p.dashTimer <= 0
                /\ p.animations.currentState # "Parry" /\ ~p.isHurt
        scale == IF free
                 THEN IF vx2 > 1 /\ p.scaleX < 0 THEN 1
                      ELSE IF vx2 < -1 /\ p.scaleX > 0 THEN -1
                      ELSE p.scaleX
                 ELSE p.scaleX
        facing == IF free
                  THEN IF vx2 > 1 /\ p.scaleX < 0 THEN TRUE
                       ELSE IF vx2 < -1 /\ p.scaleX > 0 THEN FALSE
                       ELSE p.facingRight
                  ELSE p.scaleX > 0
    IN [p EXCEPT !.velocity = [x |-> vx2, y |-> vy2],
                 !.position = [x |-> x2, y |-> y2],
                 !.isGrounded = grounded,
                 !.canDash = dashOk,
                 !.scaleX = scale,
                 !.facingRight = facing]

\* a handleAnimations() without the early return for the Dead state
PlayerHandleAnimations_NoDeadCheck(p) ==
    LET currentState == p.animations.currentState
        isUninterruptibleAction ==
            PlayerIsAttacking(p) \/ currentState = "Dash"
            \/ currentState = "Parry"
        newState ==
            IF isUninterruptibleAction
            THEN IF p.isGrounded THEN "Idle" ELSE "Jump"
            ELSE IF ~p.isGrounded THEN "Jump"
                 ELSE IF p.velocity.x > 10 \/ p.velocity.x < -10 THEN "Run"
                      ELSE "Idle"
    IN IF p.isHurt THEN p
       ELSE IF isUninterruptibleAction
               /\ ~AnimIsDone(PlayerAnimations, p.animations) THEN p
       ELSE IF newState # currentState THEN PlayerPlay(p, newState)
       ELSE p

\* Player::handleAnimations
PlayerHandleAnimations(p) ==
    LET currentState == p.animations.currentState
        isUninterruptibleAction ==
            PlayerIsAttacking(p) \/ currentState = "Dash"
            \/ currentState = "Parry"
        newState ==
            IF isUninterruptibleAction
            THEN IF p.isGrounded THEN "Idle" ELSE "Jump"
            ELSE IF ~p.isGrounded THEN "Jump"
                 ELSE IF p.velocity.x > 10 \/ p.velocity.x < -10 THEN "Run"
                      ELSE "Idle"
    IN IF currentState = "Dead" THEN p
       ELSE IF p.isHurt THEN p
       ELSE IF isUninterruptibleAction
               /\ ~AnimIsDone(PlayerAnimations, p.animations) THEN p
       ELSE IF newState # currentState THEN PlayerPlay(p, newState)
       ELSE p

\* an updateTimers() that re-arms the dash when the cooldown expires,
\* grounded or not
PlayerUpdateTimers_RearmsInAir(p, dt) ==
    LET dashT == IF p.dashTimer > 0 THEN Max(0, p.dashTimer - dt)
                 ELSE p.dashTimer
        cdRunning == p.dashCooldownTimer > 0
        cdT == IF cdRunning THEN Max(0, p.dashCooldownTimer - dt)
               ELSE p.dashCooldownTimer
        dashOk == IF cdRunning
                  THEN IF p.dashCooldownTimer - dt <= 0
                       THEN TRUE ELSE p.canDash
                  ELSE IF p.isGrounded /\ ~p.canDash THEN TRUE ELSE p.canDash
        atkExpired == p.attackTimer > 0 /\ p.attackTimer - dt <= 0
        parExpired == p.parryTimer > 0 /\ p.parryTimer - dt <= 0
    IN [p EXCEPT
          !.dashTimer = dashT,
          !.dashCooldownTimer = cdT,
          !.canDash = dashOk,
          !.attackTimer = IF p.attackTimer > 0
                          THEN Max(0, p.attackTimer - dt) ELSE p.attackTimer,
          !.canAttack = IF atkExpired THEN TRUE ELSE p.canAttack,
          !.parryTimer = IF p.parryTimer > 0
                         THEN Max(0, p.parryTimer - dt) ELSE p.parryTimer,
          !.canParry = IF parExpired THEN TRUE ELSE p.canParry,
          !.parrySuccessWindow = IF p.parrySuccessWindow > 0
                                 THEN p.parrySuccessWindow - dt
                                 ELSE p.parrySuccessWindow]

\* Player::updateTimers
PlayerUpdateTimers(p, dt) ==
    LET dashT == IF p.dashTimer > 0 THEN Max(0, p.dashTimer - dt)
                 ELSE p.dashTimer
        cdRunning == p.dashCooldownTimer > 0
        cdT == IF cdRunning THEN Max(0, p.dashCooldownTimer - dt)
               ELSE p.dashCooldownTimer
        dashOk == IF cdRunning
                  THEN IF p.dashCooldownTimer - dt <= 0 /\ p.isGrounded
                       THEN TRUE ELSE p.canDash
                  ELSE IF p.isGrounded /\ ~p.canDash THEN TRUE ELSE p.canDash
        atkExpired == p.attackTimer > 0 /\ p.attackTimer - dt <= 0
        parExpired == p.parryTimer > 0 /\ p.parryTimer - dt <= 0
    IN [p EXCEPT
          !.dashTimer = dashT,
          !.dashCooldownTimer = cdT,
          !.canDash = dashOk,
          !.attackTimer = IF p.attackTimer > 0
                          THEN Max(0, p.attackTimer - dt) ELSE p.attackTimer,
          !.canAttack = IF atkExpired THEN TRUE ELSE p.canAttack,
          !.parryTimer = IF p.parryTimer > 0
                         THEN Max(0, p.parryTimer - dt) ELSE p.parryTimer,
          !.canParry = IF parExpired THEN TRUE ELSE p.canParry,
          !.parrySuccessWindow = IF p.parrySuccessWindow > 0
                                 THEN p.parrySuccessWindow - dt
                                 ELSE p.parrySuccessWindow]

PlayerAnimUpdate(p, dt) ==
    [p EXCEPT !.animations = AnimUpdate(PlayerAnimations, p.animations, dt)]

\* the normal (not hurt) part of Player::update
PlayerNormalUpdate(p, dt) ==
    PlayerAnimUpdate(
        PlayerUpdateTimers(
            PlayerHandleAnimations(PlayerHandleMovement(p, dt)), dt), dt)

\* an update() whose Hurt branch does not count hurtTimer down
PlayerUpdate_NoHurtCountdown(p, dt) ==
    IF p.isHurt
    THEN LET fi == p.hurtFlashIntervalTimer - dt
             flashed == fi <= 0
             p1 == [p EXCEPT
                      !.hurtFlashIntervalTimer =
                          IF flashed THEN hurtFlashInterval ELSE fi,
                      !.color = IF flashed
                                THEN (IF p.color = "default" THEN "damage"
                                      ELSE "default")
                                ELSE p.color]
         IN IF p.hurtTimer <= 0
            THEN PlayerNormalUpdate(
                     [p1 EXCEPT !.isHurt = FALSE, !.hurtTimer = 0,
                                !.color = "default", !.velocity.x = 0], dt)
            ELSE PlayerAnimUpdate(PlayerHandleMovement(p1, dt), dt)
    ELSE PlayerNormalUpdate(p, dt)

\* Player::update
PlayerUpdate(p, dt) ==
    IF p.isHurt
    THEN LET ht == p.hurtTimer - dt
             fi == p.hurtFlashIntervalTimer - dt
             flashed == fi <= 0
             p1 == [p EXCEPT
                      !.hurtTimer = ht,
                      !.hurtFlashIntervalTimer =
                          IF flashed THEN hurtFlashInterval ELSE fi,
                      !.color = IF flashed
                                THEN (IF p.color = "default" THEN "damage"
                                      ELSE "default")
                                ELSE p.color]
         IN IF ht <= 0
            THEN PlayerNormalUpdate(
                     [p1 EXCEPT !.isHurt = FALSE, !.hurtTimer = 0,
                                !.color = "default", !.velocity.x = 0], dt)
            ELSE PlayerAnimUpdate(PlayerHandleMovement(p1, dt), dt)
    ELSE PlayerNormalUpdate(p, dt)

---------------------------------------------------------------------------
(* Boss                                                                    *)

\* Boss member initialisers and the arguments BossGame passes
bossMoveSpeed == 120
attackCooldown1 == 1500
attackCooldown2 == 2500
ultimateCooldown == 15000
flashDuration == 300
flashInterval == 80
BossMargin == 75000
BossLeftBoundary == 600000
BossRightBoundary == 1250000
BossMaxHealth == 1000
NORMAL_HITBOX == [x |-> 150000, y |-> 200000]
ATTACK_HITBOX == [x |-> 220000, y |-> 200000]
HITBOX_Y_OFFSET == 30000

\* values drawn for currentActionDelay = 1.8 * U(0.8, 1.3), in ms
ActionDelays == {1440, 2340}

\* values drawn from moveDurationDistribution = U(0.4, 2.0), in ms
MoveDurations == {400, 2000}

\* the values one Boss::update may draw from the boss's random engine:
\* actionChoiceDistribution, moveDirectionDistribution,
\* moveDurationDistribution and the delay of startActionDelay
BossRandom ==
    [action : 0..2, direction : 0..1, moveDuration : MoveDurations,
     delay : ActionDelays]

\* Boss::Boss as BossGame constructs it; delay is the draw of the
\* constructor's startActionDelay call
NewBoss(delay) ==
    [animations |-> AnimPlay(BossAnimations, NewAnimationComponent, "BossIdle"),
     position |-> [x |-> 950000, y |-> 385000],
     velocity |-> [x |-> 0, y |-> 0],
     scaleX |-> -1,
     leftBoundary |-> BossLeftBoundary,
     rightBoundary |-> BossRightBoundary,
     maxHealth |-> BossMaxHealth,
     currentHealth |-> BossMaxHealth,
     currentState |-> "Idle",
     moveTimer |-> 0,
     timeSinceLastAction |-> 0,
     currentActionDelay |-> delay,
     currentAttackCooldown1 |-> 0,
     currentAttackCooldown2 |-> 0,
     currentUltimateCooldown |-> 0,
     attackActive |-> FALSE,
     flashTimer |-> 0,
     flashIntervalTimer |-> 0,
     color |-> "default"]

\* Boss::isAlive
BossIsAlive(b) == b.currentState # "Dead"

\* an isInvulnerable() that forgets the damage flash
isInvulnerable_NoFlash(b) ==
    \/ b.currentState = "Attacking"
    \/ b.currentState = "Ultimate"
    \/ b.currentState = "Moving"

\* an isInvulnerable() that forgets the Moving state
isInvulnerable_NoMoving(b) ==
    \/ b.currentState = "Attacking"
    \/ b.currentState = "Ultimate"
    \/ b.flashTimer > 0

\* Boss::isInvulnerable
isInvulnerable(b) ==
    \/ b.currentState = "Attacking"
    \/ b.currentState = "Ultimate"
    \/ b.currentState = "Moving"
    \/ b.flashTimer > 0

BossPlay(b, state) ==
    [b EXCEPT !.animations = AnimPlay(BossAnimations, b.animations, state)]

\* Boss::setState
setState(b, newState) ==
    IF b.currentState # newState
    THEN LET b1 == [b EXCEPT !.currentState = newState]
         IN IF newState = "Idle"
            THEN BossPlay([b1 EXCEPT !.velocity.x = 0], "BossIdle")
            ELSE IF newState = "Moving" THEN BossPlay(b1, "BossMove")
                 ELSE b1
    ELSE b

\* Boss::startActionDelay
startActionDelay(b, delay) ==
    [b EXCEPT !.currentActionDelay = delay, !.timeSinceLastAction = 0]

\* a death() that leaves attackActive as it was
BossDeath_KeepsAttackActive(b) ==
    IF b.currentState # "Dead"
    THEN [BossPlay(setState(b, "Dead"), "BossDead") EXCEPT
            !.currentHealth = 0,
            !.color = "default",
            !.velocity = [x |-> 0, y |-> 0]]
    ELSE b

\* Boss::death
BossDeath(b) ==
    IF b.currentState # "Dead"
    THEN [BossPlay(setState(b, "Dead"), "BossDead") EXCEPT
            !.currentHealth = 0,
            !.color = "default",
            !.velocity = [x |-> 0, y |-> 0],
            !.attackActive = FALSE]
    ELSE b

\* a takeDamage() that forgets to call death() when health reaches 0
BossTakeDamage_NoDeath(b, amount) ==
    IF isInvulnerable(b) \/ b.currentState = "Dead" THEN b
    ELSE [b EXCEPT
            !.currentHealth = Max(0, b.currentHealth - amount),
            !.flashTimer = flashDuration,
            !.color = "damage"]

\* Boss::takeDamage
BossTakeDamage(b, amount) ==
    IF isInvulnerable(b) \/ b.currentState = "Dead" THEN b
    ELSE LET b1 == [b EXCEPT
                      !.currentHealth = Max(0, b.currentHealth - amount),
                      !.flashTimer = flashDuration,
                      !.color = "damage"]
         IN IF b1.currentHealth <= 0 THEN BossDeath(b1) ELSE b1

\* a performAttack1() that does not start the attack's cooldown
performAttack1_NoCooldown(b) ==
    [BossPlay(setState(b, "Attacking"), "BossAttack1") EXCEPT
        !.timeSinceLastAction = 0,
        !.velocity.x = 0]

\* Boss::performAttack1
performAttack1(b) ==
    [BossPlay(setState(b, "Attacking"), "BossAttack1") EXCEPT
        !.currentAttackCooldown1 = attackCooldown1,
        !.timeSinceLastAction = 0,
        !.velocity.x = 0]

\* Boss::performAttack2
performAttack2(b) ==
    [BossPlay(setState(b, "Attacking"), "BossAttack2") EXCEPT
        !.currentAttackCooldown2 = attackCooldown2,
        !.timeSinceLastAction = 0,
        !.velocity.x = 0]

\* Boss::performUltimate
performUltimate(b) ==
    [BossPlay(setState(b, "Ultimate"), "BossUltimate") EXCEPT
        !.currentUltimateCooldown = ultimateCooldown,
        !.timeSinceLastAction = 0,
        !.velocity.x = 0]

\* a startMoving() that does not look at the boundary margin
startMoving_NoBoundaryCheck(b, rnd) ==
    LET targetSpeed == IF rnd.direction = 0 THEN -bossMoveSpeed
                       ELSE bossMoveSpeed
    IN [setState(b, "Moving") EXCEPT
          !.velocity.x = targetSpeed,
          !.moveTimer = rnd.moveDuration]

\* Boss::startMoving
startMoving(b, rnd) ==
    LET targetSpeed == IF rnd.direction = 0 THEN -bossMoveSpeed
                       ELSE bossMoveSpeed
    IN IF \/ rnd.direction = 0 /\ b.position.x > b.leftBoundary + BossMargin
          \/ rnd.direction = 1 /\ b.position.x < b.rightBoundary - BossMargin
       THEN [setState(b, "Moving") EXCEPT
               !.velocity.x = targetSpeed,
               !.moveTimer = rnd.moveDuration]
       ELSE startActionDelay(b, rnd.delay)

\* a chooseNextAction() that tries the random choice before the ultimate
chooseNextAction_NoPriority(b, rnd) ==
    IF rnd.action = 0 /\ b.currentAttackCooldown1 <= 0
    THEN performAttack1(b)
    ELSE IF rnd.action = 1 /\ b.currentAttackCooldown2 <= 0
         THEN performAttack2(b)
    ELSE IF rnd.action = 2 THEN startMoving(b, rnd)
    ELSE IF b.currentUltimateCooldown <= 0 /\ BossIsAlive(b)
         THEN performUltimate(b)
    ELSE startActionDelay(b, rnd.delay)

\* Boss::chooseNextAction; the boss always holds a non-null targetPlayer
chooseNextAction(b, rnd) ==
    IF b.currentUltimateCooldown <= 0 /\ BossIsAlive(b)
    THEN performUltimate(b)
    ELSE IF rnd.action = 0 /\ b.currentAttackCooldown1 <= 0
         THEN performAttack1(b)
    ELSE IF rnd.action = 1 /\ b.currentAttackCooldown2 <= 0
         THEN performAttack2(b)
    ELSE IF rnd.action = 2 THEN startMoving(b, rnd)
    ELSE startActionDelay(b, rnd.delay)

Clamp(v, lo, hi) == IF v < lo THEN lo ELSE IF hi < v THEN hi ELSE v

\* a handleMovement() that does not count the move timer down
BossHandleMovement_NoTimer(b, dt, rnd) ==
    LET b1 == [b EXCEPT
                 !.position.x = Clamp(b.position.x + b.velocity.x * dt,
                                      b.leftBoundary + BossMargin,
                                      b.rightBoundary - BossMargin)]
    IN IF b1.moveTimer <= 0
       THEN startActionDelay(setState(b1, "Idle"), rnd.delay)
       ELSE b1

\* a handleMovement() that does not clamp the position to the margins
BossHandleMovement_NoClamp(b, dt, rnd) ==
    LET b1 == [b EXCEPT
                 !.position.x = b.position.x + b.velocity.x * dt,
                 !.moveTimer = b.moveTimer - dt]
    IN IF b1.moveTimer <= 0
       THEN startActionDelay(setState(b1, "Idle"), rnd.delay)
       ELSE b1

\* Boss::handleMovement
BossHandleMovement(b, dt, rnd) ==
    LET b1 == [b EXCEPT
                 !.position.x = Clamp(b.position.x + b.velocity.x * dt,
                                      b.leftBoundary + BossMargin,
                                      b.rightBoundary - BossMargin),
                 !.moveTimer = b.moveTimer - dt]
    IN IF b1.moveTimer <= 0
       THEN startActionDelay(setState(b1, "Idle"), rnd.delay)
       ELSE b1

\* Boss::updateTimers
BossUpdateTimers(b, dt) ==
    [b EXCEPT
       !.currentAttackCooldown1 =
           IF b.currentAttackCooldown1 > 0 THEN b.currentAttackCooldown1 - dt
           ELSE b.currentAttackCooldown1,
       !.currentAttackCooldown2 =
           IF b.currentAttackCooldown2 > 0 THEN b.currentAttackCooldown2 - dt
           ELSE b.currentAttackCooldown2,
       !.currentUltimateCooldown =
           IF b.currentUltimateCooldown > 0 THEN b.currentUltimateCooldown - dt
           ELSE b.currentUltimateCooldown]

\* Boss::handleFlashing
handleFlashing(b, dt) ==
    IF b.flashTimer > 0
    THEN LET ft == b.flashTimer - dt
             fi == b.flashIntervalTimer - dt
             toggled == IF b.color = "default" THEN "damage" ELSE "default"
         IN [b EXCEPT
               !.flashTimer = ft,
               !.flashIntervalTimer = IF fi <= 0 THEN flashInterval ELSE fi,
               !.color = IF ft <= 0 THEN "default"
                         ELSE IF fi <= 0 THEN toggled ELSE b.color]
    ELSE b

\* an active-frame test whose ultimate window opens at the first frame
InActiveWindow_UltimateFromStart(animState, currentFrame) ==
    \/ animState = "BossAttack1" /\ currentFrame >= 3 /\ currentFrame <= 6
    \/ animState = "BossAttack2" /\ currentFrame >= 4 /\ currentFrame <= 8
    \/ animState = "BossUltimate" /\ currentFrame >= 0 /\ currentFrame <= 12

\* the active-frame test of Boss::checkAttackTiming
InActiveWindow(animState, currentFrame) ==
    \/ animState = "BossAttack1" /\ currentFrame >= 3 /\ currentFrame <= 6
    \/ animState = "BossAttack2" /\ currentFrame >= 4 /\ currentFrame <= 8
    \/ animState = "BossUltimate" /\ currentFrame >= 6 /\ currentFrame <= 12

\* Boss::checkAttackTiming
checkAttackTiming(b) ==
    [b EXCEPT !.attackActive =
        InActiveWindow(b.animations.currentState, b.animations.currentFrame)]

BossInAttack(b) == b.currentState = "Attacking" \/ b.currentState = "Ultimate"

\* Boss::update
BossUpdate(b, dt, rnd) ==
    IF b.currentState = "Dead"
    THEN [b EXCEPT !.animations = AnimUpdate(BossAnimations, b.animations, dt)]
    ELSE LET b1 == handleFlashing(BossUpdateTimers(b, dt), dt)
             b2 == [b1 EXCEPT
                      !.timeSinceLastAction = b1.timeSinceLastAction + dt]
             b3 == IF b2.currentState = "Idle"
                      /\ b2.timeSinceLastAction >= b2.currentActionDelay
                   THEN chooseNextAction(b2, rnd) ELSE b2
             b4 == IF b3.currentState = "Moving"
                   THEN BossHandleMovement(b3, dt, rnd) ELSE b3
             b5 == IF BossInAttack(b4)
                      /\ AnimIsDone(BossAnimations, b4.animations)
                   THEN [startActionDelay(setState(b4, "Idle"), rnd.delay)
                            EXCEPT !.attackActive = FALSE]
                   ELSE IF BossInAttack(b4) THEN checkAttackTiming(b4)
                        ELSE b4
         IN [b5 EXCEPT
               !.animations = AnimUpdate(BossAnimations, b5.animations, dt)]

\* the draws Boss::update(dt) consumes in state b: all four when it reaches
\* chooseNextAction, the delay alone when a move or an attack ends, none
\* otherwise (the unused components are then fixed to their first value)
BossDraws(b, dt) ==
    LET chooses == /\ b.currentState = "Idle"
                   /\ b.timeSinceLastAction + dt >= b.currentActionDelay
        ends == \/ b.currentState = "Moving" /\ b.moveTimer - dt <= 0
                \/ BossInAttack(b) /\ AnimIsDone(BossAnimations, b.animations)
    IN IF chooses THEN BossRandom
       ELSE LET any == CHOOSE rnd \in BossRandom : TRUE
            IN IF ends THEN {[any EXCEPT !.delay = d] : d \in ActionDelays}
               ELSE {any}

---------------------------------------------------------------------------
(* BossGame                                                                *)

PLAYER_HITBOX_SIZE == [x |-> 60000, y |-> 100000]
BOSS_HITBOX_SIZE == [x |-> 150000, y |-> 200000]

Rect(left, top, width, height) ==
    [left |-> left, top |-> top, width |-> width, height |-> height]

\* sf::FloatRect::intersects
Intersects(r1, r2) ==
    LET interLeft == Max(r1.left, r2.left)
        interTop == Max(r1.top, r2.top)
        r1Right == r1.left + r1.width
        r2Right == r2.left + r2.width
        r1Bottom == r1.top + r1.height
        r2Bottom == r2.top + r2.height
        interRight == IF r1Right <= r2Right THEN r1Right ELSE r2Right
        interBottom == IF r1Bottom <= r2Bottom THEN r1Bottom ELSE r2Bottom
    IN interLeft < interRight /\ interTop < interBottom

\* BossGame::getPlayerHitbox
getPlayerHitbox(p) ==
    Rect(p.position.x - PLAYER_HITBOX_SIZE.x \div 2,
         p.position.y - PLAYER_HITBOX_SIZE.y \div 2,
         PLAYER_HITBOX_SIZE.x, PLAYER_HITBOX_SIZE.y)

\* Boss::getGlobalBounds
BossGetGlobalBounds(b) ==
    LET isAttacking == BossInAttack(b)
        width == IF isAttacking THEN ATTACK_HITBOX.x ELSE NORMAL_HITBOX.x
        height == NORMAL_HITBOX.y
        direction == IF b.scaleX > 0 THEN 1 ELSE -1
        xPosition == IF isAttacking
                     THEN b.position.x + (NORMAL_HITBOX.x \div 2) * direction
                     ELSE b.position.x
    IN Rect(xPosition - width \div 2,
            b.position.y - height \div 2 + HITBOX_Y_OFFSET,
            width, height)

\* a "Boss attack Player" block that does not ask isParryProtected()
BossHitsPlayer_NoParryCheck(p, b) ==
    /\ b.attackActive
    /\ PlayerIsAlive(p)
    /\ Intersects(BossGetGlobalBounds(b), getPlayerHitbox(p))

\* the guard of the "Boss attack Player" block of BossGame::handleCollisions
BossHitsPlayer(p, b) ==
    /\ b.attackActive
    /\ PlayerIsAlive(p)
    /\ ~isParryProtected(p)
    /\ Intersects(BossGetGlobalBounds(b), getPlayerHitbox(p))

\* BossGame::handleCollisions, on the pair of actors
handleCollisions(g) ==
    LET b1 == IF /\ PlayerIsAttacking(g.player)
                 /\ BossIsAlive(g.boss)
                 /\ g.player.facingRight
                 /\ Intersects(getPlayerHitbox(g.player),
                               BossGetGlobalBounds(g.boss))
              THEN BossTakeDamage(g.boss, 15)
              ELSE g.boss
        p1 == IF BossHitsPlayer(g.player, b1)
              THEN PlayerTakeDamage(g.player, 5)
              ELSE g.player
    IN [player |-> p1, boss |-> b1]

\* BossGame::update up to the call of handleCollisions: both actors
\* updated and the player's right boundary recomputed
UpdateActors(g, dt, rnd) ==
    LET p1 == PlayerUpdate(g.player, dt)
        b1 == BossUpdate(g.boss, dt, rnd)
        bossHitboxThird == BOSS_HITBOX_SIZE.x \div 3
        bossLeftEdge == b1.position.x - BOSS_HITBOX_SIZE.x \div 2
    IN [player |-> [p1 EXCEPT !.rightBoundary =
                        bossLeftEdge + bossHitboxThird
                            - PLAYER_HITBOX_SIZE.x \div 2],
        boss |-> b1]

\* BossGame::update
GameUpdate(g, dt, rnd) == handleCollisions(UpdateActors(g, dt, rnd))

\* the held-key part of BossGame::processInput; movement is the sum of the
\* A and D keys
HeldKeys(g, movement) ==
    [g EXCEPT !.player = IF PlayerIsAlive(g.player)
                         THEN PlayerMove(g.player, movement)
                         ELSE PlayerMove(g.player, 0)]

\* the key and mouse-button events BossGame::processInput acts on
GameKeys ==
    {"Space", "E", "LShift", "RShift", "Q", "T", "N", "Y", "M",
     "MouseLeft", "MouseRight"}

\* BossGame::processInput for one KeyPressed or MouseButtonPressed event;
\* attackIndex is the draw of Player::attack
HandleEvent(g, key, attackIndex) ==
    IF ~PlayerIsAlive(g.player) THEN g
    ELSE CASE key = "Space" -> [g EXCEPT !.player = PlayerJump(g.player)]
           [] key \in {"E", "MouseLeft"} ->
                [g EXCEPT !.player = PlayerAttack(g.player, attackIndex)]
           [] key \in {"LShift", "RShift"} ->
                [g EXCEPT !.player = PlayerDash(g.player)]
           [] key \in {"Q", "MouseRight"} ->
                [g EXCEPT !.player = PlayerParry(g.player)]
           [] key = "T" -> [g EXCEPT !.player = PlayerTakeDamage(g.player, 10)]
           [] key = "N" -> [g EXCEPT !.player = PlayerDeath(g.player)]
           [] key = "Y" -> [g EXCEPT !.boss = BossTakeDamage(g.boss, 100)]
           [] key = "M" -> [g EXCEPT !.boss = BossDeath(g.boss)]
           [] OTHER -> g

---------------------------------------------------------------------------
(* Specification of the two actor classes, each driven on its own through  *)
(* its public methods and update ticks in any interleaving, the other      *)
(* actor left as constructed.                                              *)

InitBosses == {NewBoss(delay) : delay \in ActionDelays}

Init ==
    /\ player = NewPlayer
    /\ boss \in InitBosses
    /\ ticks = 0
    /\ track = NoTrack

PlayerOnly == boss \in InitBosses
BossOnly == player = NewPlayer

move ==
    \E dx \in MoveDirections :
        /\ PlayerOnly
        /\ player' = PlayerMove(player, dx)
        /\ UNCHANGED <<boss, ticks, track>>

jump ==
    /\ PlayerOnly
    /\ player' = PlayerJump(player)
    /\ UNCHANGED <<boss, ticks, track>>

attack ==
    \E attackIndex \in 0..2 :
        /\ PlayerOnly
        /\ player' = PlayerAttack(player, attackIndex)
        /\ UNCHANGED <<boss, ticks, track>>

dash ==
    /\ PlayerOnly
    /\ player' = PlayerDash(player)
    /\ UNCHANGED <<boss, ticks, track>>

parry ==
    /\ PlayerOnly
    /\ player' = PlayerParry(player)
    /\ UNCHANGED <<boss, ticks, track>>

takeDamage ==
    \E amount \in PlayerDamageAmounts :
        /\ PlayerOnly
        /\ player' = PlayerTakeDamage(player, amount)
        /\ UNCHANGED <<boss, ticks, track>>

death ==
    /\ PlayerOnly
    /\ player' = PlayerDeath(player)
    /\ UNCHANGED <<boss, ticks, track>>

update ==
    \E dt \in DtSet :
        /\ PlayerOnly
        /\ ticks < MaxTicks
        /\ player' = PlayerUpdate(player, dt)
        /\ ticks' = ticks + 1
        /\ UNCHANGED <<boss, track>>

bossTakeDamage ==
    \E amount \in BossDamageAmounts :
        /\ BossOnly
        /\ boss' = BossTakeDamage(boss, amount)
        /\ UNCHANGED <<player, ticks, track>>

bossDeath ==
    /\ BossOnly
    /\ boss' = BossDeath(boss)
    /\ UNCHANGED <<player, ticks, track>>

bossUpdate ==
    \E dt \in DtSet : \E rnd \in BossDraws(boss, dt) :
        /\ BossOnly
        /\ ticks < MaxBossTicks
        /\ boss' = BossUpdate(boss, dt, rnd)
        /\ ticks' = ticks + 1
        /\ UNCHANGED <<player, track>>

Next ==
    \/ move
    \/ jump
    \/ attack
    \/ dash
    \/ parry
    \/ takeDamage
    \/ death
    \/ update
    \/ bossTakeDamage
    \/ bossDeath
    \/ bossUpdate

Spec == Init /\ [][Next]_vars

---------------------------------------------------------------------------
(* Specification of the game loop, BossGame::run: every iteration handles  *)
(* the pending input events, then the held movement keys, then update(dt). *)
(* For the first ApproachFrames iterations the user only holds D.          *)

Game == [player |-> player, boss |-> boss]

Approaching == ticks < ApproachFrames

keyPressed ==
    \E key \in GameKeys :
      \E attackIndex \in IF key \in {"E", "MouseLeft"} THEN 0..2 ELSE {0} :
        /\ ~Approaching
        /\ LET g == HandleEvent(Game, key, attackIndex)
           IN /\ player' = g.player
              /\ boss' = g.boss
        /\ UNCHANGED <<ticks, track>>

frame ==
    \E movement \in IF Approaching THEN {1} ELSE MoveDirections,
       dt \in DtSet :
      \E rnd \in BossDraws(boss, dt) :
        /\ ticks < MaxFrames
        /\ LET g == GameUpdate(HeldKeys(Game, movement), dt, rnd)
           IN /\ player' = g.player
              /\ boss' = g.boss
        /\ ticks' = ticks + 1
        /\ UNCHANGED track

NextGame ==
    \/ keyPressed
    \/ frame

SpecGame == Init /\ [][NextGame]_vars

---------------------------------------------------------------------------
(* Specification of the two actor classes driven as in Spec, but with      *)
(* update ticks of differing frame times.                                  *)

updateAny ==
    \E dt \in FrameTimes :
        /\ PlayerOnly
        /\ ticks < MaxFrameTimeTicks
        /\ player' = PlayerUpdate(player, dt)
        /\ ticks' = ticks + 1
        /\ UNCHANGED <<boss, track>>

bossUpdateAny ==
    \E dt \in FrameTimes : \E rnd \in BossDraws(boss, dt) :
        /\ BossOnly
        /\ ticks < MaxFrameTimeTicks
        /\ boss' = BossUpdate(boss, dt, rnd)
        /\ ticks' = ticks + 1
        /\ UNCHANGED <<player, track>>

NextFrameTimes ==
    \/ move
    \/ jump
    \/ attack
    \/ dash
    \/ parry
    \/ takeDamage
    \/ death
    \/ updateAny
    \/ bossTakeDamage
    \/ bossDeath
    \/ bossUpdateAny

SpecFrameTimes == Init /\ [][NextFrameTimes]_vars

---------------------------------------------------------------------------
(* Specification of the game loop with a user who walks up to the boss and *)
(* then stands and strikes: after the approach only the attack key E and   *)
(* the debug key Y (boss.takeDamage(100)) are pressed.                     *)

\* the keys pressed in SpecDuel
DuelKeys == {"E", "Y"}

duelKeyPressed ==
    \E key \in DuelKeys :
      \E attackIndex \in IF key = "E" THEN 0..2 ELSE {0} :
        /\ ticks >= DuelApproachFrames
        /\ LET g == HandleEvent(Game, key, attackIndex)
           IN /\ player' = g.player
              /\ boss' = g.boss
        /\ UNCHANGED <<ticks, track>>

duelFrame ==
    \E dt \in DtSet : \E rnd \in BossDraws(boss, dt) :
        /\ ticks < MaxDuelFrames
        /\ LET movement == IF ticks < DuelApproachFrames THEN 1 ELSE 0
               g == GameUpdate(HeldKeys(Game, movement), dt, rnd)
           IN /\ player' = g.player
              /\ boss' = g.boss
        /\ ticks' = ticks + 1
        /\ UNCHANGED track

NextDuel ==
    \/ duelKeyPressed
    \/ duelFrame

SpecDuel == Init /\ [][NextDuel]_vars

---------------------------------------------------------------------------
(* Specification of the boss on its own over several rounds of its AI:     *)
(* Boss::update ticks, hits and death() in any interleaving.               *)

bossUpdateAi ==
    \E dt \in DtSet : \E rnd \in BossDraws(boss, dt) :
        /\ ticks < MaxAiTicks
        /\ boss' = BossUpdate(boss, dt, rnd)
        /\ ticks' = ticks + 1
        /\ UNCHANGED <<player, track>>

bossStrike ==
    \E amount \in StrikeAmounts :
        /\ boss' = BossTakeDamage(boss, amount)
        /\ UNCHANGED <<player, ticks, track>>

bossDies ==
    /\ boss' = BossDeath(boss)
    /\ UNCHANGED <<player, ticks, track>>

NextBoss ==
    \/ bossUpdateAi
    \/ bossStrike
    \/ bossDies

SpecBoss == Init /\ [][NextBoss]_vars

---------------------------------------------------------------------------
(* Specification of an AnimationComponent on its own: animations of every  *)
(* frame count are registered, then play and update are called in any      *)
(* order.  Both builds of the component in the repository are covered.     *)

InitTracks ==
    {[build |-> b,
      animations |-> TrackTable(loopFrames, onceFrames, duration),
      component |-> NewAnimationComponent,
      fault |-> "none"] :
        b \in {"part_000", "BossFight"},
        loopFrames \in 1..MaxFrameCount,
        onceFrames \in 1..MaxFrameCount,
        duration \in FrameDurations}

InitAnim ==
    /\ player = NewPlayer
    /\ boss \in InitBosses
    /\ ticks = 0
    /\ track \in InitTracks

trackPlay ==
    \E state \in TrackStates :
      \E outcome \in PlayOutcomes(track, state) :
        /\ track.fault # "crashed"
        /\ track' = outcome
        /\ UNCHANGED <<player, boss, ticks>>

trackUpdate ==
    \E dt \in AdvanceTimes :
        /\ track.fault # "crashed"
        /\ ticks < MaxAdvances
        /\ track' = TrackUpdate(track, dt)
        /\ ticks' = ticks + 1
        /\ UNCHANGED <<player, boss>>

NextAnim ==
    \/ trackPlay
    \/ trackUpdate

SpecAnim == InitAnim /\ [][NextAnim]_vars

---------------------------------------------------------------------------
(* Properties of the actor classes, checked under Spec.                    *)

PlayerAnimState == player.animations.currentState

\* C1: the player's and the boss's health stay within [0, maxHealth] in
\* every reachable state, and no step ever raises either health.
C1_HealthInRange ==
    /\ [](/\ player.currentHealth \in 0..player.maxHealth
          /\ boss.currentHealth \in 0..boss.maxHealth)
    /\ [][/\ player'.currentHealth <= player.currentHealth
          /\ boss'.currentHealth <= boss.currentHealth]_vars

\* a hit has landed on the player and left it alive, inside the range
C1_Witness ==
    /\ player.isHurt
    /\ player.currentHealth > 0
    /\ player.currentHealth < player.maxHealth

\* C2: whenever the player's health is 0 the animation/action state is
\* Dead; a lethal takeDamage leaves both at the end of the same call.
C2_ZeroHealthIsDead ==
    player.currentHealth = 0 => PlayerAnimState = "Dead"

\* the player has died where it stood, before any further update
C2_Witness ==
    /\ player.currentHealth = 0
    /\ PlayerAnimState = "Dead"
    /\ player.animations.currentFrame = 0
    /\ player.animations.elapsedTime = 0

\* C3: Dead is terminal for the player: from a Dead state no call and no
\* tick changes the animation state away from Dead or the health from 0.
C3_DeadIsTerminal ==
    [][PlayerAnimState = "Dead" =>
          /\ player'.animations.currentState = "Dead"
          /\ player'.currentHealth = 0]_vars

\* the player is dead and update ticks have run since
C3_Witness ==
    /\ PlayerAnimState = "Dead"
    /\ player.animations.currentFrame >= 2

Attacking == PlayerIsAttacking(player)
Dashing == player.dashTimer > 0
Parrying == PlayerAnimState = "Parry"
Hurt == player.isHurt
Dead == PlayerAnimState = "Dead"

Count(cond) == IF cond THEN 1 ELSE 0

\* C4: at most one of Attacking, Dashing, Parrying, Hurt and Dead holds of
\* the player in every reachable state.
C4_MutualExclusion ==
    Count(Attacking) + Count(Dashing) + Count(Parrying) + Count(Hurt)
        + Count(Dead) <= 1

\* C5: boss attackActive implies the AI state is Attacking or Ultimate.
C5_AttackActiveOnlyInAttack ==
    boss.attackActive => boss.currentState \in {"Attacking", "Ultimate"}

\* the boss is inside the active window of an attack
C5_Witness ==
    /\ boss.attackActive
    /\ boss.currentState = "Attacking"

\* C6: while the boss plays attack-1, attackActive is true exactly when the
\* animation's current frame index is in 3..6.
C6_AttackActiveMatchesFrame ==
    (boss.currentState = "Attacking"
        /\ boss.animations.currentState = "BossAttack1")
    => (boss.attackActive <=> boss.animations.currentFrame \in 3..6)

\* C8: Boss::takeDamage changes nothing while the boss is Attacking, in
\* Ultimate, Moving, inside the flash window or Dead; it can change the
\* boss only when the boss is Idle with no flash running.
C8_BossTakeDamageNoOp ==
    \A amount \in BossDamageAmounts :
        /\ (\/ boss.currentState \in {"Attacking", "Ultimate", "Moving", "Dead"}
            \/ boss.flashTimer > 0)
           => BossTakeDamage(boss, amount) = boss
        /\ BossTakeDamage(boss, amount).currentHealth < boss.currentHealth
           => (boss.currentState = "Idle" /\ boss.flashTimer <= 0)

\* the boss is on the move, where a hit must not count
C8_Witness ==
    /\ boss.currentState = "Moving"
    /\ boss.flashTimer <= 0
    /\ boss.currentHealth > 0

\* C9: Player::takeDamage changes nothing (health, hurt timer, velocity,
\* animation) while the player is Hurt, dead or in the Dead animation.
C9_PlayerTakeDamageNoOp ==
    (player.isHurt \/ player.currentHealth <= 0 \/ PlayerAnimState = "Dead")
    => \A amount \in PlayerDamageAmounts :
           PlayerTakeDamage(player, amount) = player

\* the player is part-way through a stun
C9_Witness ==
    /\ player.isHurt
    /\ player.hurtTimer > 0
    /\ player.hurtTimer < hurtDuration

\* C10: death() is idempotent for both actors: calling it twice from any
\* reachable state leaves the actor as calling it once does.
C10_DeathIdempotent ==
    /\ PlayerDeath(PlayerDeath(player)) = PlayerDeath(player)
    /\ BossDeath(BossDeath(boss)) = BossDeath(boss)

\* a stunned, tinted player in mid-air, on which death() changes the
\* animation, the velocity, the flags and the tint
C10_Witness ==
    /\ player.isHurt
    /\ player.color = "damage"
    /\ ~player.isGrounded
    /\ PlayerDeath(player) # player

---------------------------------------------------------------------------
(* Properties of the game loop, checked under SpecGame.                    *)

\* C7: a frame's combat resolution lowers the player's health only if, at
\* the time handleCollisions runs, boss attackActive is true, the player is
\* alive, the player is not protected (parry success window > 0, Parry
\* animation or Dash animation) and the hitboxes overlap.
C7_DamageOnlyWhenUnprotected ==
    [][(ticks' # ticks /\ player'.currentHealth < player.currentHealth) =>
         \E movement \in MoveDirections, dt \in DtSet, rnd \in BossRandom :
            LET g == UpdateActors(HeldKeys(Game, movement), dt, rnd)
            IN /\ handleCollisions(g) = [player |-> player', boss |-> boss']
               /\ g.boss.attackActive
               /\ g.player.currentHealth > 0
               /\ g.player.parrySuccessWindow <= 0
               /\ g.player.animations.currentState \notin {"Parry", "Dash"}
               /\ Intersects(BossGetGlobalBounds(g.boss),
                             getPlayerHitbox(g.player))]_vars

\* the boss's swing has just hit the player: 5 health gone, stun started
C7_Witness ==
    /\ boss.attackActive
    /\ player.currentHealth = PlayerMaxHealth - 5
    /\ player.isHurt
    /\ player.hurtTimer = hurtDuration

---------------------------------------------------------------------------
(* Further properties of the actor classes, checked under Spec.            *)

\* C11: the boss is Dead exactly from the call that brings its health to 0,
\* with velocity zero and attackActive false, and once Dead no tick and no
\* takeDamage/death call changes its AI state, health, position or
\* attackActive.
C11_BossDeadIsTerminal ==
    /\ [](/\ boss.currentHealth = 0 => boss.currentState = "Dead"
          /\ boss.currentState = "Dead" =>
                /\ boss.currentHealth = 0
                /\ boss.velocity = [x |-> 0, y |-> 0]
                /\ ~boss.attackActive)
    /\ [][boss.currentState = "Dead" =>
            /\ boss'.currentState = "Dead"
            /\ boss'.currentHealth = boss.currentHealth
            /\ boss'.position = boss.position
            /\ boss'.attackActive = boss.attackActive]_vars

\* the boss was killed by a hit and update ticks have run on the corpse
C11_Witness ==
    /\ boss.currentState = "Dead"
    /\ boss.flashTimer = flashDuration
    /\ boss.animations.currentFrame >= 1

\* C12: while the player is Hurt or Dead, move, jump, attack, dash and
\* parry each leave the whole player state unchanged.
C12_ActionsNoOpWhenHurtOrDead ==
    (player.isHurt \/ player.currentHealth <= 0 \/ PlayerAnimState = "Dead")
    => /\ \A dx \in MoveDirections : PlayerMove(player, dx) = player
       /\ PlayerJump(player) = player
       /\ \A attackIndex \in 0..2 : PlayerAttack(player, attackIndex) = player
       /\ PlayerDash(player) = player
       /\ PlayerParry(player) = player

\* a stunned player, knocked into the air, all of whose cooldowns are ready
C12_Witness ==
    /\ player.isHurt
    /\ ~player.isGrounded
    /\ player.canDash /\ player.canAttack /\ player.canParry

\* C13: dash() while dashTimer > 0, or while the dash cooldown is not
\* ready, changes nothing of the player.
C13_DashNoOp ==
    (player.dashTimer > 0 \/ player.dashCooldownTimer > 0 \/ ~player.canDash)
    => PlayerDash(player) = player

\* an alive, unhurt player in the middle of a dash
C13_Witness ==
    /\ player.dashTimer > 0
    /\ player.dashTimer < dashDuration
    /\ ~player.isHurt
    /\ player.currentHealth > 0

\* C14: for each player cooldown with a ready flag, (dashCooldownTimer,
\* canDash), (attackTimer, canAttack) and (parryTimer, canParry), the flag
\* is set exactly when the timer is <= 0, in every reachable state, grounded
\* or airborne.
C14_ReadyIffExpired ==
    /\ player.canDash <=> player.dashCooldownTimer <= 0
    /\ player.canAttack <=> player.attackTimer <= 0
    /\ player.canParry <=> player.parryTimer <= 0

\* C14 as amended: the attack and parry flags are set exactly when their
\* timers are <= 0; canDash implies dashCooldownTimer <= 0, and the two are
\* equivalent whenever the player is alive and grounded (an expired dash
\* cooldown re-arms canDash only on the ground).
C14_ReadyIffExpiredOnGround ==
    /\ player.canAttack <=> player.attackTimer <= 0
    /\ player.canParry <=> player.parryTimer <= 0
    /\ player.canDash => player.dashCooldownTimer <= 0
    /\ (PlayerIsAlive(player) /\ player.isGrounded)
       => (player.canDash <=> player.dashCooldownTimer <= 0)

\* the dash cooldown has run out in mid-air: the timer is 0, the flag unset
C14_Witness ==
    /\ PlayerIsAlive(player)
    /\ ~player.isGrounded
    /\ player.dashCooldownTimer = 0
    /\ ~player.canDash

---------------------------------------------------------------------------
(* Properties of the timers, checked under SpecFrameTimes and Spec.        *)

\* C15: no countdown timer is ever negative: the player's dashTimer,
\* dashCooldownTimer, attackTimer, parryTimer, parrySuccessWindow and
\* hurtTimer and the boss's attack-1, attack-2 and ultimate cooldowns and
\* flashTimer are >= 0 in every reachable state.
C15_TimersNeverNegative ==
    /\ player.dashTimer >= 0
    /\ player.dashCooldownTimer >= 0
    /\ player.attackTimer >= 0
    /\ player.parryTimer >= 0
    /\ player.parrySuccessWindow >= 0
    /\ player.hurtTimer >= 0
    /\ boss.currentAttackCooldown1 >= 0
    /\ boss.currentAttackCooldown2 >= 0
    /\ boss.currentUltimateCooldown >= 0
    /\ boss.flashTimer >= 0

\* the timers that Player::updateTimers counts down
PlayerTimers ==
    {"dashTimer", "dashCooldownTimer", "attackTimer", "parryTimer",
     "parrySuccessWindow"}

\* C16: every player timer that is > 0 is decremented by dt (down to 0 at
\* most) in every update tick, whatever the player's action state, the
\* ticks spent in Hurt included.
C16_TimersDecrementEveryTick ==
    [][ticks' # ticks =>
         \A t \in PlayerTimers :
            player[t] > 0 =>
               \E dt \in DtSet : player'[t] = Max(0, player[t] - dt)]_vars

---------------------------------------------------------------------------
(* Properties of the AnimationComponent, checked under SpecAnim.           *)

\* the current state is one that addAnimation registered
TrackDefined ==
    /\ track.component.currentState \in DOMAIN track.animations
    /\ track.animations[track.component.currentState].texture # "null"
TrackAnim == track.animations[track.component.currentState]
TrackFrame == track.component.currentFrame
TrackNonLooping == TrackDefined /\ ~TrackAnim.loops

Min(a, b) == IF a <= b THEN a ELSE b

\* C17: for every registered animation and every sequence of play and
\* update calls, 0 <= frameIndex < frameCount; an update never takes the
\* frame index of a non-looping track back (it clamps, it does not wrap).
C17_FrameIndexInRange ==
    /\ [](TrackDefined => TrackFrame \in 0..(TrackAnim.frameCount - 1))
    /\ [][(TrackNonLooping /\ ticks' # ticks)
            => track'.component.currentFrame >= TrackFrame]_vars

\* a non-looping track of three or more frames that an update has run to
\* its end and clamped on the last frame
C17_Witness ==
    /\ track.build = "part_000"
    /\ TrackNonLooping
    /\ TrackAnim.frameCount >= 3
    /\ TrackFrame = TrackAnim.frameCount - 1
    /\ track.component.isDone

\* C18: for a non-looping track isDone() is true exactly when the track is
\* at its last frame, and when isDone() is true no update changes the frame
\* index.
C18_DoneIffLastFrame ==
    TrackNonLooping =>
        /\ TrackIsDone(track) <=> TrackFrame = TrackAnim.frameCount - 1
        /\ TrackIsDone(track) =>
              \A dt \in AdvanceTimes :
                 TrackUpdate(track, dt).component.currentFrame = TrackFrame

\* C19: once a non-looping track is done, an update leaves the frame index,
\* the time elapsed in the frame and the done flag as they are; the
\* component changes again only in a play call.
C19_DoneTrackFrozen ==
    [][(TrackNonLooping /\ TrackIsDone(track) /\ ticks' # ticks)
          => track'.component = track.component]_vars

\* a finished non-looping track that keeps the remainder of its last update
\* and can still be updated
C19_Witness ==
    /\ track.build = "part_000"
    /\ TrackNonLooping
    /\ track.component.isDone
    /\ track.component.elapsedTime > 0
    /\ ticks >= 2
    /\ ticks < MaxAdvances

\* C20: update(dt) of the catch-up build advances the frame index by
\* floor(e / frameDuration), e = elapsedInFrame + dt, and keeps e mod
\* frameDuration; a looping track ends on (old + steps) mod frameCount, a
\* non-looping one on min(old + steps, frameCount - 1); dt = 0.5 s against
\* a frameDuration of 0.1 s takes a 4-frame loop from frame 0 to frame 1.
C20_CatchUp ==
    /\ (track.build = "part_000" /\ TrackDefined
           /\ ~(TrackNonLooping /\ TrackIsDone(track)))
       => \A dt \in AdvanceTimes :
             LET e == track.component.elapsedTime + dt
                 steps == e \div TrackAnim.frameDuration
                 after == TrackUpdate(track, dt).component
             IN /\ after.elapsedTime = e % TrackAnim.frameDuration
                /\ after.currentFrame =
                      IF TrackAnim.loops
                      THEN (TrackFrame + steps) % TrackAnim.frameCount
                      ELSE Min(TrackFrame + steps, TrackAnim.frameCount - 1)
    /\ LET table == TrackTable(4, 1, 100)
           start == AnimPlay(table, NewAnimationComponent, "Idle")
       IN AnimUpdate(table, start, 500) =
             [start EXCEPT !.currentFrame = 1, !.elapsedTime = 0]

\* the 4-frame loop of 0.1 s frames after one update of 0.5 s from frame 0
C20_Witness ==
    /\ track.build = "part_000"
    /\ track.component.currentState = "Idle"
    /\ track.animations.Idle = Anim(4, 100, TRUE)
    /\ ticks = 1
    /\ TrackFrame = 1
    /\ track.component.elapsedTime = 0

\* C21: in the catch-up build, play(s) with s the current state changes
\* nothing if s loops, however often it is repeated, and resets the frame
\* index, the elapsed time and done if s does not loop; play(s) with s
\* different from the current state always resets the three.
C21_PlayRestartRule ==
    (track.build = "part_000" /\ track.fault = "none") =>
       \A s \in {"Idle", "Attack1"} :
          LET once == AnimPlay(track.animations, track.component, s)
              twice == AnimPlay(track.animations, once, s)
              fresh == [currentState |-> s, currentFrame |-> 0,
                        elapsedTime |-> 0, isDone |-> FALSE]
          IN IF s = track.component.currentState /\ track.animations[s].loops
             THEN once = track.component /\ twice = track.component
             ELSE once = fresh

\* the looping state is current, part-way through a frame that is not the
\* first
C21_Witness ==
    /\ track.build = "part_000"
    /\ track.component.currentState = "Idle"
    /\ TrackFrame >= 1
    /\ track.component.elapsedTime > 0

\* C23: play(s) for a state s that was never registered leaves the
\* component usable: no null texture has been dereferenced, every entry of
\* the animation table has a texture, and the current state is None or a
\* registered state.
C23_PlayUndefinedIsSafe ==
    /\ track.fault = "none"
    /\ \A s \in DOMAIN track.animations :
          track.animations[s].texture # "null"
    /\ track.component.currentState \in DOMAIN track.animations \cup {"None"}

---------------------------------------------------------------------------
(* Further properties of the game loop, checked under SpecGame.            *)

\* C22: at the end of every frame, after both actors were updated and the
\* right boundary was recomputed from the boss's position, the player's x
\* position is <= the player's right boundary.
C22_PlayerWithinRightBoundary ==
    player.position.x <= player.rightBoundary

---------------------------------------------------------------------------
(* Properties of the player's actions, checked under Spec and              *)
(* SpecFrameTimes.                                                         *)

Uninterruptible ==
    PlayerIsAttacking(player) \/ PlayerAnimState = "Dash"
    \/ PlayerAnimState = "Parry"

PlayerAnimDone == AnimIsDone(PlayerAnimations, player.animations)

\* C24: attack() changes the player only if the attack cooldown is ready
\* and the player is not attacking, dashing, parrying, hurt or dead; it then
\* plays one of Attack1/Attack2/Attack3, clears canAttack, sets attackTimer
\* to the full cooldown and zeroes the horizontal velocity if grounded; it
\* never replaces a Dash or Parry animation that has not reported done.
C24_AttackPreconditions ==
    \A attackIndex \in 0..2 :
       LET after == PlayerAttack(player, attackIndex)
       IN after # player =>
            /\ player.canAttack
            /\ ~PlayerIsAttacking(player)
            /\ player.dashTimer <= 0
            /\ PlayerAnimState # "Parry"
            /\ ~player.isHurt
            /\ PlayerIsAlive(player)
            /\ after.animations.currentState
                  \in {"Attack1", "Attack2", "Attack3"}
            /\ after.animations.currentFrame = 0
            /\ ~after.canAttack
            /\ after.attackTimer = attackCooldown
            /\ player.isGrounded => after.velocity.x = 0
            /\ ~(PlayerAnimState \in {"Dash", "Parry"} /\ ~PlayerAnimDone)

\* C25: jump() changes the player only if the player is grounded, not
\* attacking, not dashing, not parrying, not hurt and alive; it then sets
\* the upward velocity and clears grounded, nothing else.  A live player is
\* grounded only on the ground, and grounded is set again only by a tick
\* that lands the player, so two effective jumps are separated by a landing.
C25_JumpNeedsGround ==
    /\ [](LET after == PlayerJump(player)
          IN /\ after # player =>
                  /\ player.isGrounded
                  /\ ~PlayerIsAttacking(player)
                  /\ player.dashTimer <= 0
                  /\ PlayerAnimState # "Parry"
                  /\ ~player.isHurt
                  /\ PlayerIsAlive(player)
                  /\ after = [player EXCEPT !.velocity.y = -jumpForce,
                                            !.isGrounded = FALSE]
             /\ (PlayerIsAlive(player) /\ player.isGrounded)
                  => player.position.y >= groundLevel)
    /\ [][(~player.isGrounded /\ player'.isGrounded
             /\ PlayerIsAlive(player'))
            => /\ ticks' # ticks
               /\ player'.position.y = groundLevel
               /\ player'.velocity.y = 0]_vars

\* the player is rising after a jump: a second jump() must do nothing
C25_Witness ==
    /\ PlayerIsAlive(player)
    /\ ~player.isHurt
    /\ ~player.isGrounded
    /\ player.position.y < groundLevel
    /\ player.velocity.y < 0
    /\ player.dashTimer <= 0
    /\ ~Uninterruptible

\* a boss whose attack is active, standing on the player
StrikingBosses ==
    {[b EXCEPT !.attackActive = TRUE, !.position = player.position] :
        b \in InitBosses}

\* C26: parry() changes the player only if the parry cooldown is ready and
\* the player is not attacking, hurt or dead; it then clears canParry, sets
\* parryTimer to the full cooldown and opens the success window.  While the
\* success window is > 0 the player is protected, whatever animation is
\* playing: the collision step with a striking boss leaves the player as is.
C26_ParryWindowProtects ==
    /\ LET after == PlayerParry(player)
       IN after # player =>
            /\ player.canParry
            /\ ~PlayerIsAttacking(player)
            /\ ~player.isHurt
            /\ PlayerIsAlive(player)
            /\ ~after.canParry
            /\ after.parryTimer = parryCooldown
            /\ after.parrySuccessWindow = PARRY_SUCCESS_DURATION
    /\ player.parrySuccessWindow > 0 =>
            /\ isParryProtected(player)
            /\ \A b \in StrikingBosses :
                   handleCollisions([player |-> player, boss |-> b]).player
                       = player

\* the success window is open after the Parry animation has ended, and
\* the strike would land without the protection
C26_Witness ==
    /\ player.parrySuccessWindow > 0
    /\ PlayerAnimState \in {"Idle", "Run", "Jump"}
    /\ player.currentHealth = player.maxHealth
    /\ ~player.canParry
    /\ \E b \in StrikingBosses : BossHitsPlayer_NoParryCheck(player, b)

\* C27: a dash grants invulnerability for its whole duration: whenever the
\* dash-duration timer is running the player is protected, so the collision
\* step with a striking boss leaves the player as is.
C27_DashIsInvulnerable ==
    player.dashTimer > 0 =>
        /\ isParryProtected(player)
        /\ \A b \in StrikingBosses :
               handleCollisions([player |-> player, boss |-> b]).player
                   = player

\* C28: attack, dash and parry are uninterruptible: when the animation
\* state is an attack variant, Dash or Parry, a step that changes it either
\* enters Hurt or Dead, or is taken after the animation has reported done;
\* a tick taken then falls back to Idle (grounded) or Jump (airborne).
C28_Uninterruptible ==
    [][(Uninterruptible
          /\ player'.animations.currentState # PlayerAnimState)
        => \/ player'.animations.currentState \in {"Hurt", "Dead"}
           \/ /\ PlayerAnimDone
              /\ ticks' # ticks =>
                   player'.animations.currentState
                       = IF player'.isGrounded THEN "Idle" ELSE "Jump"]_vars

\* C29: physics applies in every tick the player spends in Hurt: a tick
\* taken while isHurt adds gravity to the vertical velocity and integrates
\* the vertical position (stopping on the ground), whatever timers run.
C29_HurtPhysics ==
    [][(player.isHurt /\ ticks' # ticks) =>
         \E dt \in DtSet :
            LET vy1 == player.velocity.y + (gravity * dt) \div 1000
                propY == player.position.y + vy1 * dt
            IN /\ player'.position.y = Min(propY, groundLevel)
               /\ player'.velocity.y =
                     IF propY >= groundLevel /\ vy1 > 0 THEN 0 ELSE vy1]_vars

\* C30: Hurt is a fixed-duration state.  A live hurt player has between 0
\* and hurtDuration left on hurtTimer; no input call changes that timer or
\* ends the stun; a tick takes dt off it, and the tick that brings it to 0
\* ends Hurt with the tint reset.  So the player leaves Hurt as soon as the
\* ticks since the hit total hurtDuration.
C30_HurtEnds ==
    /\ []((player.isHurt /\ PlayerIsAlive(player)) =>
            (0 < player.hurtTimer /\ player.hurtTimer <= hurtDuration))
    /\ [][(player.isHurt /\ PlayerIsAlive(player) /\ PlayerIsAlive(player'))
           => IF ticks' # ticks
              THEN \E dt \in DtSet :
                     IF player.hurtTimer - dt > 0
                     THEN /\ player'.isHurt
                          /\ player'.hurtTimer = player.hurtTimer - dt
                     ELSE /\ ~player'.isHurt
                          /\ player'.hurtTimer = 0
                          /\ player'.color = "default"
              ELSE /\ player'.isHurt
                   /\ player'.hurtTimer = player.hurtTimer]_vars

\* a player that was hit, survived and has left Hurt
C30_Witness ==
    /\ PlayerIsAlive(player)
    /\ player.currentHealth < player.maxHealth
    /\ ~player.isHurt
    /\ player.hurtTimer = 0
    /\ player.color = "default"
    /\ PlayerAnimState # "Hurt"

---------------------------------------------------------------------------
(* Properties of the boss's AI, checked under Spec and SpecBoss.           *)

\* the boss is Idle and the tick of length dt reaches chooseNextAction
BossChooses(dt) ==
    /\ boss.currentState = "Idle"
    /\ boss.timeSinceLastAction + dt >= boss.currentActionDelay

\* C31: Ultimate has priority: when the live boss chooses its next action
\* with the ultimate cooldown ready, the next AI state is Ultimate, for
\* every random draw and whatever the attack-1/attack-2 cooldowns are.
C31_UltimatePriority ==
    /\ []((boss.currentState = "Idle" /\ boss.currentUltimateCooldown <= 0)
            => \A rnd \in BossRandom :
                  chooseNextAction(boss, rnd).currentState = "Ultimate")
    /\ [][\A dt \in DtSet :
            (/\ ticks' # ticks
             /\ BossChooses(dt)
             /\ BossUpdateTimers(boss, dt).currentUltimateCooldown <= 0)
            => /\ boss'.currentState = "Ultimate"
               /\ boss'.animations.currentState = "BossUltimate"
               /\ boss'.currentUltimateCooldown = ultimateCooldown]_vars

\* the tick that chose the ultimate, with both attacks ready as well
C31_Witness ==
    /\ boss.currentState = "Ultimate"
    /\ boss.timeSinceLastAction = 0
    /\ boss.currentUltimateCooldown = ultimateCooldown
    /\ boss.currentAttackCooldown1 <= 0
    /\ boss.currentAttackCooldown2 <= 0

\* the draws for which the branch chosen by chooseNextAction cannot act
BranchFails(b, rnd) ==
    /\ ~(b.currentUltimateCooldown <= 0 /\ BossIsAlive(b))
    /\ \/ rnd.action = 0 /\ b.currentAttackCooldown1 > 0
       \/ rnd.action = 1 /\ b.currentAttackCooldown2 > 0
       \/ /\ rnd.action = 2
          /\ rnd.direction = 0
          /\ b.position.x <= b.leftBoundary + BossMargin
       \/ /\ rnd.action = 2
          /\ rnd.direction = 1
          /\ b.position.x >= b.rightBoundary - BossMargin

\* C32: the boss leaves Idle (other than by dying) only in a tick that
\* reaches the action choice, once timeSinceLastAction >= currentActionDelay;
\* when the drawn branch cannot act (attack on cooldown, move against the
\* margin) the choice only re-arms the action delay: the boss stays Idle
\* with velocity 0 and timeSinceLastAction 0, and no other branch is tried.
C32_IdleUntilChoice ==
    /\ [](boss.currentState = "Idle" =>
            /\ boss.velocity.x = 0
            /\ \A rnd \in BossRandom :
                  BranchFails(boss, rnd) =>
                     chooseNextAction(boss, rnd)
                         = [boss EXCEPT !.timeSinceLastAction = 0,
                                        !.currentActionDelay = rnd.delay])
    /\ [][(boss.currentState = "Idle"
            /\ boss'.currentState \notin {"Idle", "Dead"})
           => /\ ticks' # ticks
              /\ \E dt \in DtSet : BossChooses(dt)]_vars
    /\ [][(boss.currentState = "Idle" /\ ticks' # ticks
            /\ boss'.currentState = "Idle"
            /\ \E dt \in DtSet : BossChooses(dt))
           => /\ boss'.timeSinceLastAction = 0
              /\ boss'.velocity.x = 0
              /\ boss'.position = boss.position]_vars

\* the boss stands at the right margin and has just refused a move to the
\* right, re-arming its delay
C32_Witness ==
    /\ boss.currentState = "Idle"
    /\ boss.position.x = boss.rightBoundary - BossMargin
    /\ boss.timeSinceLastAction = 0
    /\ boss.currentAttackCooldown1 <= 0
    /\ boss.currentAttackCooldown2 <= 0
    /\ boss.currentUltimateCooldown > 0
    /\ boss.animations.currentFrame > 0

\* the step starts the one-shot animation anim
BossStarts(anim) ==
    /\ boss.animations.currentState # anim
    /\ boss'.animations.currentState = anim

\* C33: boss actions are cooldown-gated: attack-1, attack-2 and the
\* ultimate start only in a tick in which their own cooldown, counted down
\* by that tick, is <= 0, and the start sets the cooldown to its full value;
\* a cooldown rises only by such a start and falls by at most dt per tick,
\* so two starts of one action are at least its cooldown apart.
C33_CooldownGated ==
    [][\E dt \in DtSet :
         LET ready == BossUpdateTimers(boss, dt)
             spent == IF ticks' # ticks THEN dt ELSE 0
         IN /\ (BossStarts("BossAttack1")
                   \/ boss'.currentAttackCooldown1
                        > boss.currentAttackCooldown1)
               => /\ ticks' # ticks
                  /\ BossStarts("BossAttack1")
                  /\ boss'.currentState = "Attacking"
                  /\ ready.currentAttackCooldown1 <= 0
                  /\ boss'.currentAttackCooldown1 = attackCooldown1
            /\ (BossStarts("BossAttack2")
                   \/ boss'.currentAttackCooldown2
                        > boss.currentAttackCooldown2)
               => /\ ticks' # ticks
                  /\ BossStarts("BossAttack2")
                  /\ boss'.currentState = "Attacking"
                  /\ ready.currentAttackCooldown2 <= 0
                  /\ boss'.currentAttackCooldown2 = attackCooldown2
            /\ (BossStarts("BossUltimate")
                   \/ boss'.currentUltimateCooldown
                        > boss.currentUltimateCooldown)
               => /\ ticks' # ticks
                  /\ BossStarts("BossUltimate")
                  /\ boss'.currentState = "Ultimate"
                  /\ ready.currentUltimateCooldown <= 0
                  /\ boss'.currentUltimateCooldown = ultimateCooldown
            /\ boss'.currentAttackCooldown1
                  >= boss.currentAttackCooldown1 - spent
            /\ boss'.currentAttackCooldown2
                  >= boss.currentAttackCooldown2 - spent
            /\ boss'.currentUltimateCooldown
                  >= boss.currentUltimateCooldown - spent]_vars

\* attack-1 has just started in a later round of the AI, five seconds or
\* more after the ultimate, whose cooldown is still running
C33_Witness ==
    /\ boss.currentState = "Attacking"
    /\ boss.animations.currentState = "BossAttack1"
    /\ boss.currentAttackCooldown1 = attackCooldown1
    /\ boss.timeSinceLastAction = 0
    /\ boss.currentUltimateCooldown > 0
    /\ boss.currentUltimateCooldown
          <= ultimateCooldown - 2 * attackCooldown1 - 2000

\* C34: the boss stays at least the margin inside each wall, and its
\* horizontal velocity is non-zero only in the Moving state.
C34_BossInsideMargins ==
    /\ boss.leftBoundary + BossMargin <= boss.position.x
    /\ boss.position.x <= boss.rightBoundary - BossMargin
    /\ boss.velocity.x # 0 => boss.currentState = "Moving"

\* the boss is walking right and is held at the right margin
C34_Witness ==
    /\ boss.currentState = "Moving"
    /\ boss.velocity.x > 0
    /\ boss.moveTimer > 0
    /\ boss.position.x = boss.rightBoundary - BossMargin

\* the time the boss's current animation has played
BossPlayed(b) ==
    b.animations.currentFrame
        * BossAnimations[b.animations.currentState].frameDuration
    + b.animations.elapsedTime

\* the length of the boss's current animation
BossAnimLength(b) ==
    BossAnimations[b.animations.currentState].frameCount
        * BossAnimations[b.animations.currentState].frameDuration

BossAnimDone(b) == AnimIsDone(BossAnimations, b.animations)

\* C35: every boss action ends.  An attack or ultimate plays a one-shot
\* animation of bounded length that every tick advances by dt until it is
\* done, and the tick after that returns the boss to Idle with attackActive
\* cleared and the delay re-armed; a move has a positive bounded moveTimer
\* that every tick lowers by dt, and the tick that brings it to 0 returns
\* the boss to Idle with the delay re-armed.  No other call than a tick
\* changes the animation's progress or the move timer of a live boss.
C35_BossActionsEnd ==
    /\ [](/\ BossInAttack(boss) =>
               /\ boss.animations.currentState
                     \in {"BossAttack1", "BossAttack2", "BossUltimate"}
               /\ BossPlayed(boss) <= BossAnimLength(boss)
          /\ boss.currentState = "Moving" =>
               /\ boss.moveTimer > 0
               /\ \E d \in MoveDurations : boss.moveTimer <= d)
    /\ [][\E dt \in DtSet :
            /\ (BossInAttack(boss) /\ ticks' # ticks /\ BossIsAlive(boss'))
               => IF BossAnimDone(boss)
                  THEN /\ boss'.currentState = "Idle"
                       /\ ~boss'.attackActive
                       /\ boss'.timeSinceLastAction = 0
                  ELSE /\ boss'.currentState = boss.currentState
                       /\ \/ BossAnimDone(boss')
                          \/ BossPlayed(boss') = BossPlayed(boss) + dt
            /\ (boss.currentState = "Moving" /\ ticks' # ticks
                   /\ BossIsAlive(boss'))
               => IF boss.moveTimer - dt <= 0
                  THEN /\ boss'.currentState = "Idle"
                       /\ boss'.velocity.x = 0
                       /\ boss'.timeSinceLastAction = 0
                  ELSE /\ boss'.currentState = "Moving"
                       /\ boss'.moveTimer = boss.moveTimer - dt
            /\ ((BossInAttack(boss) \/ boss.currentState = "Moving")
                   /\ ticks' = ticks /\ BossIsAlive(boss'))
               => /\ boss'.currentState = boss.currentState
                  /\ boss'.animations = boss.animations
                  /\ boss'.moveTimer = boss.moveTimer]_vars

\* the boss is back in Idle after a move, an attack-1 behind it as well
C35_Witness ==
    /\ boss.currentState = "Idle"
    /\ boss.timeSinceLastAction = 0
    /\ boss.moveTimer <= 0
    /\ boss.position.x # 950000
    /\ boss.currentAttackCooldown1 > 0
    /\ ~boss.attackActive

\* C36: attackActive is never true while the boss is in the Ultimate
\* state: the ultimate animation only has frames 0 and 1, which lie outside
\* the active window, so no tick of an Ultimate can damage the player.
C36_UltimateNeverActive ==
    boss.currentState = "Ultimate" =>
        /\ ~boss.attackActive
        /\ boss.animations.currentState = "BossUltimate"
        /\ boss.animations.currentFrame < BossAnimations.BossUltimate.frameCount
        /\ ~InActiveWindow(boss.animations.currentState,
                           boss.animations.currentFrame)
        /\ ~BossHitsPlayer([player EXCEPT !.position = boss.position], boss)

\* the ultimate is on its last frame, a player standing on the boss
C36_Witness ==
    /\ boss.currentState = "Ultimate"
    /\ boss.animations.currentFrame = 1
    /\ boss.animations.elapsedTime > 0
    /\ ~BossAnimDone(boss)
    /\ Intersects(BossGetGlobalBounds(boss),
                  getPlayerHitbox([player EXCEPT !.position = boss.position]))

---------------------------------------------------------------------------
(* Properties of the player's strikes on the boss, checked under SpecDuel. *)

\* C37: two successive decreases of the boss's health are separated by
\* boss updates totalling at least flashDuration: a step lowers the health
\* only when the flash timer, counted down by that step's update, is <= 0,
\* and it sets the flash timer to flashDuration; the flash timer rises only
\* by such a step and falls by at most dt per update.  (That one attack
\* animation can land twice is shown by the reachable state below.)
C37_HitsSpacedByFlash ==
    [][\E dt \in DtSet :
         LET spent == IF ticks' # ticks THEN dt ELSE 0
         IN /\ boss'.currentHealth < boss.currentHealth =>
                 /\ boss.flashTimer - spent <= 0
                 /\ boss'.flashTimer = flashDuration
            /\ boss'.flashTimer > boss.flashTimer =>
                 boss'.currentHealth < boss.currentHealth
            /\ boss'.flashTimer >= boss.flashTimer - spent
                 \/ boss'.flashTimer = flashDuration]_vars

\* the second hit of one attack animation: the boss has just been hit for
\* the second time while the attack started 0.4 s ago is still playing
C37_Witness ==
    /\ boss.currentHealth = boss.maxHealth - 30
    /\ boss.flashTimer = flashDuration
    /\ PlayerIsAttacking(player)
    /\ player.attackTimer <= 0

---------------------------------------------------------------------------
(* Properties of the dash cooldown, checked under Spec.                    *)

\* C38: at most one dash takes effect per airborne interval: dash() does
\* nothing while canDash is false, a dash that takes effect clears canDash,
\* and canDash is set again only by a tick that leaves the live player
\* grounded, never in mid-air, even after the cooldown has elapsed.
C38_OneDashPerAirtime ==
    /\ [](LET after == PlayerDash(player)
          IN /\ ~player.canDash => after = player
             /\ after # player => ~after.canDash)
    /\ [][(~player.canDash /\ player'.canDash)
           => /\ ticks' # ticks
              /\ player'.isGrounded
              /\ player'.position.y >= groundLevel
              /\ player'.dashCooldownTimer <= 0]_vars

\* the player has dashed and is airborne after the cooldown has elapsed:
\* nothing but canDash stands in the way of another dash
C38_Witness ==
    /\ PlayerIsAlive(player)
    /\ ~player.isHurt
    /\ ~player.isGrounded
    /\ player.position.y < groundLevel
    /\ player.dashCooldownTimer <= 0
    /\ player.dashTimer <= 0
    /\ ~PlayerIsAttacking(player)
    /\ PlayerAnimState # "Parry"
    /\ ~player.canDash

\* C39: canDash is true only when the dash cooldown has elapsed, so a
\* dash never starts while its cooldown is counting down.
C39_ReadyOnlyAfterCooldown ==
    /\ player.canDash => player.dashCooldownTimer <= 0
    /\ PlayerDash(player) # player => player.dashCooldownTimer <= 0

\* the player has landed while the cooldown of its dash is still running
C39_Witness ==
    /\ PlayerIsAlive(player)
    /\ player.isGrounded
    /\ player.position.y = groundLevel
    /\ player.dashCooldownTimer > 0
    /\ player.dashTimer <= 0
    /\ ~player.canDash
    /\ ticks >= 3

====
